---- MODULE Spec2Model ----
(***************************************************************************)
(* GuardRail: movement ledger (hash-chained event store), chain anchor     *)
(* (Merkle batches published to Ethereum / Solana) and policy engine.      *)
(*                                                                         *)
(* Three specifications share the persisted tables:                        *)
(*   Spec        - the movement-ledger service (create_event, restart)     *)
(*   AnchorSpec  - the chain-anchor service (batches, retries)             *)
(*   PolicySpec  - the policy-engine service (check_action)                *)
(***************************************************************************)
EXTENDS Integers, Sequences, FiniteSets, TLC

VARIABLES
    movement_events,   \* table movement_events, in insertion order
    last_event,        \* AppState.last_event of the ledger (tail cache)
    ce_pc,             \* position of each create_event_impl call
    ce_local,          \* locals of each create_event_impl call
    ce_result,         \* what the last create_event call of a task returned
    uuid_ctr,          \* source of Uuid::new_v4 values
    anchor_batches,    \* table anchor_batches, in insertion order
    anchor_config,     \* AnchorConfig and the presence of the two chain clients
    ab_pc,             \* position of each create_and_anchor_batch run
    ab_local,          \* locals of each create_and_anchor_batch run
    rb_pc,             \* position of each retry_batch_impl call
    rb_local,          \* locals of each retry_batch_impl call
    rb_result,         \* what the last retry_batch call of a task returned
    retry_ctr,         \* number of retry_batch requests received
    batch_ctr,         \* source of the Uuid::new_v4 values of batch ids
    policies,          \* table policies
    policy_decisions,  \* table policy_decisions, in insertion order
    engine,            \* AppState.engine of the policy engine (behind its RwLock)
    ca_pc,             \* position of each check_action_impl call
    ca_local,          \* locals of each check_action_impl call
    ca_result,         \* what each check_action call returned
    check_ctr,         \* number of check_action requests received
    ap_pc,             \* position of each activate_policy_impl call
    ap_local,          \* locals of each activate_policy_impl call
    ap_result,         \* what each activate / deactivate call returned
    ap_ctr,            \* number of activate / deactivate requests received
    cp_pc,             \* position of each create_policy_impl call
    cp_local,          \* locals of each create_policy_impl call
    cp_result,         \* what each create_policy call returned
    cp_ctr,            \* number of create_policy requests received
    engine_lock,       \* the holder of the write lock of AppState.engine inside reload_policies
    mk_hashes,         \* the list of leaf hashes given to the Merkle functions
    mk_index,          \* the target index given to the proof generators (from 0)
    mk_out,            \* the last Merkle function called and what it returned
    vc_out,            \* what the last verify_chain call returned
    sim_out,           \* what the last simulate_policy call returned
    pd_result,         \* the evaluator result given to parse_decision
    pd_out,            \* what parse_decision returned for it
    le_out,            \* what the last list_events call returned
    pub_out,           \* the chain calls of the last publication section run on its own
    sol_state,         \* the ProgramState account of the Solana program
    sol_authorized,    \* the AuthorizedAnchor accounts of the Solana program
    sol_batches,       \* the Batch accounts of the Solana program, in creation order
    sol_out            \* what the last instruction sent to the Solana program returned

ledger_vars == <<movement_events, last_event, ce_pc, ce_local, ce_result, uuid_ctr>>

anchor_vars == <<anchor_batches, anchor_config, ab_pc, ab_local, rb_pc, rb_local, rb_result, retry_ctr, batch_ctr>>

manage_vars == <<ap_pc, ap_local, ap_result, ap_ctr, cp_pc, cp_local, cp_result, cp_ctr,
                 engine_lock>>

policy_vars == <<policies, policy_decisions, engine, ca_pc, ca_local, ca_result, check_ctr,
                 manage_vars>>

merkle_vars == <<mk_hashes, mk_index, mk_out>>

verify_vars == <<vc_out>>

parse_vars == <<pd_result, pd_out>>

simulate_vars == <<sim_out>>

list_vars == <<le_out>>

publish_vars == <<pub_out>>

solana_vars == <<sol_state, sol_authorized, sol_batches, sol_out>>

call_vars == <<merkle_vars, verify_vars, parse_vars, simulate_vars, list_vars, publish_vars,
               solana_vars>>

vars == <<ledger_vars, anchor_vars, policy_vars, call_vars>>

----------------------------------------------------------------------------
(* Bounds *)

NumAppenders == 2      \* concurrent create_event requests
MaxEvents == 2         \* rows in movement_events
MaxCalls == 3          \* create_event requests received
MaxBatches == 2        \* rows in anchor_batches
MaxRetries == 2        \* retry_batch requests received
MaxInFlight == 2       \* chain-anchor requests and scheduler runs in progress at once
MaxBatchSize == 2      \* ANCHOR_BATCH_SIZE
MaxChecks == 2         \* check_action requests received
MaxActivations == 1    \* activate / deactivate requests received
MaxLeaves == 5         \* leaf hashes in a list given to the Merkle functions

----------------------------------------------------------------------------
(* Values *)

NoneVal == "None"

\* Option<Uuid>::None, SQL NULL in a uuid column (new_v4 values are 1, 2, ...)
NoId == 0

\* Option<String> / Option<i64> / Option<DateTime>::None, SQL NULL
NoTx == <<>>

\* Option<LastEventInfo>
NoLastEvent == [some |-> FALSE]
LastEventInfo(sequence_number, event_hash) ==
    [some |-> TRUE, sequence_number |-> sequence_number, event_hash |-> event_hash]

\* "0".repeat(64)
GENESIS_HASH == <<"0000000000000000000000000000000000000000000000000000000000000000">>

\* chrono::Utc::now(): nanoseconds since the epoch; one reading on a
\* microsecond boundary and one off it
ClockReadings == {1000, 1001}

EventTypes == {"PolicyDecision", "SystemEvent"}
ActorIds == {"actor-1"}
Payloads == {"{}"}

LedgerProcs == 1..NumAppenders

\* CreateEventRequest values received by POST /api/v1/events
CreateEventRequests ==
    [event_type : EventTypes, actor_id : ActorIds,
     policy_decision_id : {NoId}, payload : Payloads]

----------------------------------------------------------------------------
(* Hash chain *)

\* the k low-order bytes of n, least significant first
RECURSIVE LeBytes(_, _)
LeBytes(n, k) == IF k = 0 THEN <<>> ELSE <<n % 256>> \o LeBytes(n \div 256, k - 1)

\* i64::to_le_bytes
to_le_bytes(n) == LeBytes(n, 8)

\* DateTime::to_rfc3339 (SecondsFormat::AutoSi): whole seconds and the
\* shortest of 0, 3, 6 or 9 fractional digits that is exact
to_rfc3339(t) ==
    LET secs == t \div 1000000000
        nanos == t % 1000000000
    IN  IF nanos = 0 THEN <<secs, 0, 0>>
        ELSE IF nanos % 1000000 = 0 THEN <<secs, 3, nanos \div 1000000>>
        ELSE IF nanos % 1000 = 0 THEN <<secs, 6, nanos \div 1000>>
        ELSE <<secs, 9, nanos>>

\* SHA-256 over the concatenated field bytes, hex encoded (collision free)
compute_event_hash(sequence_number, event_type, actor_id, payload, previous_hash, timestamp) ==
    <<"sha256", to_le_bytes(sequence_number), event_type, actor_id, payload,
      previous_hash, to_rfc3339(timestamp)>>

\* a timestamptz column keeps microseconds
PgTimestamptz(t) == t - (t % 1000)

\* a store that skips a number
DbNextSequenceSkips(rows) == Len(rows) + 2

\* the value the store gives sequence_number: the next integer
DbNextSequence(rows) == Len(rows) + 1

\* the tail row: ORDER BY sequence_number DESC LIMIT 1
TailRow(rows) ==
    IF rows = <<>> THEN NoLastEvent
    ELSE LET r == CHOOSE x \in {rows[i] : i \in 1..Len(rows)} :
                    \A j \in 1..Len(rows) : rows[j].sequence_number <= x.sequence_number
         IN  LastEventInfo(r.sequence_number, r.event_hash)

NoLocal == [id |-> 0, req |-> NoneVal, now |-> 0, previous_hash |-> NoneVal,
            next_sequence |-> 0, event_hash |-> NoneVal, event |-> NoneVal]

----------------------------------------------------------------------------
(* movement-ledger: create_event_impl *)

\* previous_hash and next_sequence read from the tail cache
ReadTail(last) ==
    IF ~last.some THEN <<GENESIS_HASH, 1>>
    ELSE <<last.event_hash, last.sequence_number + 1>>

\* new id and timestamp, tail read under the read lock, hash computed
CreateEventReadTail(p) ==
    /\ ce_pc[p] = "idle"
    /\ uuid_ctr <= MaxCalls
    /\ Len(movement_events) + Cardinality({q \in LedgerProcs : ce_pc[q] = "hashed"}) < MaxEvents
    /\ \E req \in CreateEventRequests, now \in ClockReadings :
         LET tail == ReadTail(last_event)
             previous_hash == tail[1]
             next_sequence == tail[2]
         IN  ce_local' = [ce_local EXCEPT ![p] =
                 [id |-> uuid_ctr, req |-> req, now |-> now,
                  previous_hash |-> previous_hash, next_sequence |-> next_sequence,
                  event_hash |-> compute_event_hash(next_sequence, req.event_type,
                                    req.actor_id, req.payload, previous_hash, now),
                  event |-> NoneVal]]
    /\ uuid_ctr' = uuid_ctr + 1
    /\ ce_pc' = [ce_pc EXCEPT ![p] = "hashed"]
    /\ ce_result' = [ce_result EXCEPT ![p] = NoneVal]
    /\ UNCHANGED <<call_vars, policy_vars, movement_events, last_event, anchor_vars>>

\* the row INSERT ... RETURNING gives back
InsertedRow(l, rows) ==
    [id |-> l.id,
     sequence_number |-> DbNextSequence(rows),
     event_type |-> l.req.event_type,
     actor_id |-> l.req.actor_id,
     policy_decision_id |-> l.req.policy_decision_id,
     payload |-> l.req.payload,
     previous_hash |-> l.previous_hash,
     event_hash |-> l.event_hash,
     anchor_batch_id |-> NoId,
     created_at |-> PgTimestamptz(l.now)]

CreateEventInsert(p) ==
    /\ ce_pc[p] = "hashed"
    /\ LET event == InsertedRow(ce_local[p], movement_events)
       IN  /\ movement_events' = Append(movement_events, event)
           /\ ce_local' = [ce_local EXCEPT ![p].event = event]
    /\ ce_pc' = [ce_pc EXCEPT ![p] = "inserted"]
    /\ UNCHANGED <<call_vars, policy_vars, last_event, ce_result, uuid_ctr, anchor_vars>>

\* variant: the tail cache is written with the computed tail although the
\* INSERT failed
CreateEventInsertFailsCached(p) ==
    /\ ce_pc[p] = "hashed"
    /\ last_event' = LastEventInfo(ce_local[p].next_sequence, ce_local[p].event_hash)
    /\ ce_pc' = [ce_pc EXCEPT ![p] = "idle"]
    /\ ce_local' = [ce_local EXCEPT ![p] = NoLocal]
    /\ ce_result' = [ce_result EXCEPT ![p] = "Err"]
    /\ UNCHANGED <<call_vars, policy_vars, movement_events, uuid_ctr, anchor_vars>>

\* the INSERT fails: `.await?` returns the error
CreateEventInsertFails(p) ==
    /\ ce_pc[p] = "hashed"
    /\ ce_pc' = [ce_pc EXCEPT ![p] = "idle"]
    /\ ce_local' = [ce_local EXCEPT ![p] = NoLocal]
    /\ ce_result' = [ce_result EXCEPT ![p] = "Err"]
    /\ UNCHANGED <<call_vars, policy_vars, movement_events, last_event, uuid_ctr, anchor_vars>>

\* the tail the cache is set to after the insert
CachedTail(event) == LastEventInfo(event.sequence_number, event.event_hash)

CreateEventUpdateCache(p) ==
    /\ ce_pc[p] = "inserted"
    /\ last_event' = CachedTail(ce_local[p].event)
    /\ ce_pc' = [ce_pc EXCEPT ![p] = "idle"]
    /\ ce_local' = [ce_local EXCEPT ![p] = NoLocal]
    /\ ce_result' = [ce_result EXCEPT ![p] = "Ok"]
    /\ UNCHANGED <<call_vars, policy_vars, movement_events, uuid_ctr, anchor_vars>>

\* the request future is dropped at an await point (client disconnect)
CreateEventCancelled(p) ==
    /\ ce_pc[p] # "idle"
    /\ ce_pc' = [ce_pc EXCEPT ![p] = "idle"]
    /\ ce_local' = [ce_local EXCEPT ![p] = NoLocal]
    /\ ce_result' = [ce_result EXCEPT ![p] = "Cancelled"]
    /\ UNCHANGED <<call_vars, policy_vars, movement_events, last_event, uuid_ctr, anchor_vars>>

\* movement-ledger main: process (re)start, tail cache from the max-sequence row
LedgerRestart ==
    /\ last_event' = TailRow(movement_events)
    /\ ce_pc' = [p \in LedgerProcs |-> "idle"]
    /\ ce_local' = [p \in LedgerProcs |-> NoLocal]
    /\ ce_result' = [p \in LedgerProcs |-> IF ce_pc[p] = "idle" THEN ce_result[p] ELSE "Cancelled"]
    /\ UNCHANGED <<call_vars, policy_vars, movement_events, uuid_ctr, anchor_vars>>

----------------------------------------------------------------------------
(* chain-anchor: Merkle root *)

\* usize::count_ones
RECURSIVE count_ones(_)
count_ones(n) == IF n = 0 THEN 0 ELSE (n % 2) + count_ones(n \div 2)

\* SHA-256 over the two hex strings, hex encoded (collision free)
Sha256Pair(left, right) == <<"sha256", left, right>>

\* variant: the last leaf pushed again only until the length is even
AnchorPadEven(level) ==
    IF Len(level) % 2 = 0 THEN level ELSE Append(level, level[Len(level)])
\* the last leaf pushed again until the length is a power of two
RECURSIVE AnchorPad(_)
AnchorPad(level) ==
    IF count_ones(Len(level)) = 1 THEN level
    ELSE AnchorPad(Append(level, level[Len(level)]))

\* chunks(2) hashed pairwise
PairLevel(level) ==
    [i \in 1..(Len(level) \div 2) |-> Sha256Pair(level[2 * i - 1], level[2 * i])]

RECURSIVE ReduceLevels(_)
ReduceLevels(level) == IF Len(level) > 1 THEN ReduceLevels(PairLevel(level)) ELSE level[1]

\* chain-anchor build_merkle_root
anchor_build_merkle_root(event_hashes) ==
    IF event_hashes = <<>> THEN GENESIS_HASH
    ELSE IF Len(event_hashes) = 1 THEN event_hashes[1]
    ELSE ReduceLevels(AnchorPad(event_hashes))

----------------------------------------------------------------------------
(* movement-ledger: Merkle root and proofs *)

\* usize & usize
RECURSIVE BitAnd(_, _)
BitAnd(a, b) ==
    IF a = 0 \/ b = 0 THEN 0
    ELSE (a % 2) * (b % 2) + 2 * BitAnd(a \div 2, b \div 2)

\* variant: the leaf level padded to an even length only
LedgerPadToEven(level) ==
    IF Len(level) % 2 = 1 THEN Append(level, level[Len(level)]) ELSE level

\* the last leaf pushed again while len & (len - 1) != 0
RECURSIVE LedgerPad(_)
LedgerPad(level) ==
    IF BitAnd(Len(level), Len(level) - 1) # 0
    THEN LedgerPad(Append(level, level[Len(level)]))
    ELSE level

\* variant: one level in which a lone last node is carried up unhashed
PairLevelCarry(level) ==
    [i \in 1..((Len(level) + 1) \div 2) |->
        IF 2 * i <= Len(level) THEN Sha256Pair(level[2 * i - 1], level[2 * i])
        ELSE level[2 * i - 1]]

RECURSIVE ReduceLevelsCarry(_)
ReduceLevelsCarry(level) ==
    IF Len(level) > 1 THEN ReduceLevelsCarry(PairLevelCarry(level)) ELSE level[1]

\* variant: no padding, a lone last node carried up
LedgerRootUnpadded(event_hashes) ==
    IF event_hashes = <<>> THEN GENESIS_HASH
    ELSE ReduceLevelsCarry(event_hashes)

\* movement-ledger build_merkle_root
ledger_build_merkle_root(event_hashes) ==
    IF event_hashes = <<>> THEN GENESIS_HASH
    ELSE IF Len(event_hashes) = 1 THEN event_hashes[1]
    ELSE ReduceLevels(LedgerPad(event_hashes))

ProofSibling(hash, position) == [hash |-> hash, position |-> position]

\* the loop of generate_merkle_proof; index counts from 0
RECURSIVE LedgerProofLevels(_, _, _)
LedgerProofLevels(level, index, proof) ==
    IF Len(level) > 1
    THEN LET sibling_index == IF index % 2 = 0 THEN index + 1 ELSE index - 1
             position == IF index % 2 = 0 THEN "right" ELSE "left"
         IN  LedgerProofLevels(
                 PairLevel(level), index \div 2,
                 IF sibling_index < Len(level)
                 THEN Append(proof, ProofSibling(level[sibling_index + 1], position))
                 ELSE proof)
    ELSE proof

\* variant: the proof walked over the unpadded leaf level
LedgerProofUnpadded(event_hashes, target_index) ==
    IF Len(event_hashes) <= 1 THEN <<>>
    ELSE LedgerProofLevels(event_hashes, target_index, <<>>)

\* movement-ledger generate_merkle_proof; target_index counts from 0
ledger_generate_merkle_proof(event_hashes, target_index) ==
    IF Len(event_hashes) <= 1 THEN <<>>
    ELSE LedgerProofLevels(LedgerPad(event_hashes), target_index, <<>>)

\* the loop of verify_merkle_proof
RECURSIVE LedgerFoldProof(_, _)
LedgerFoldProof(current_hash, proof) ==
    IF proof = <<>> THEN current_hash
    ELSE LedgerFoldProof(IF Head(proof).position = "left"
                         THEN Sha256Pair(Head(proof).hash, current_hash)
                         ELSE Sha256Pair(current_hash, Head(proof).hash),
                         Tail(proof))

\* movement-ledger verify_merkle_proof
ledger_verify_merkle_proof(event_hash, proof, root) ==
    LedgerFoldProof(event_hash, proof) = root

----------------------------------------------------------------------------
(* shared crypto: Merkle tree and proofs *)

\* the last element pushed once more when the length is odd
CryptoPadOdd(level) ==
    IF Len(level) % 2 = 1 THEN Append(level, level[Len(level)]) ELSE level

\* one level of build_merkle_tree: chunks(2), a lone left paired with itself
CryptoTreeLevel(nodes) ==
    [i \in 1..((Len(nodes) + 1) \div 2) |->
        Sha256Pair(nodes[2 * i - 1],
                   IF 2 * i <= Len(nodes) THEN nodes[2 * i] ELSE nodes[2 * i - 1])]

RECURSIVE CryptoTreeLevels(_)
CryptoTreeLevels(nodes) ==
    IF Len(nodes) > 1 THEN CryptoTreeLevels(CryptoTreeLevel(nodes)) ELSE nodes[1]

\* shared crypto compute_merkle_root (build_merkle_tree, then the root's
\* hash): NoTx for None
crypto_compute_merkle_root(hashes) ==
    IF hashes = <<>> THEN NoTx
    ELSE <<CryptoTreeLevels(CryptoPadOdd(hashes))>>

\* the loop of the shared generate_merkle_proof; index counts from 0
RECURSIVE CryptoProofLevels(_, _, _)
CryptoProofLevels(current_hashes, index, proof_hashes) ==
    IF Len(current_hashes) > 1
    THEN LET sibling_index == IF index % 2 = 0 THEN index + 1 ELSE index - 1
             position == IF index % 2 = 0 THEN "Right" ELSE "Left"
             next_level == PairLevel(current_hashes)
         IN  CryptoProofLevels(
                 IF Len(next_level) % 2 = 1 /\ Len(next_level) > 1
                 THEN Append(next_level, next_level[Len(next_level)])
                 ELSE next_level,
                 index \div 2,
                 Append(proof_hashes,
                        [hash |-> current_hashes[sibling_index + 1], position |-> position]))
    ELSE [proof_hashes |-> proof_hashes, merkle_root |-> current_hashes[1]]

\* shared crypto generate_merkle_proof: NoTx for None
crypto_generate_merkle_proof(hashes, target_index) ==
    IF target_index >= Len(hashes) \/ hashes = <<>> THEN NoTx
    ELSE LET done == CryptoProofLevels(CryptoPadOdd(hashes), target_index, <<>>)
         IN  << [event_hash |-> hashes[target_index + 1],
                 proof_hashes |-> done.proof_hashes,
                 merkle_root |-> done.merkle_root] >>

RECURSIVE CryptoFoldProof(_, _)
CryptoFoldProof(current_hash, proof_hashes) ==
    IF proof_hashes = <<>> THEN current_hash
    ELSE CryptoFoldProof(IF Head(proof_hashes).position = "Left"
                         THEN Sha256Pair(Head(proof_hashes).hash, current_hash)
                         ELSE Sha256Pair(current_hash, Head(proof_hashes).hash),
                         Tail(proof_hashes))

\* shared crypto verify_merkle_proof
crypto_verify_merkle_proof(proof) ==
    CryptoFoldProof(proof.event_hash, proof.proof_hashes) = proof.merkle_root

----------------------------------------------------------------------------
(* calls of the Merkle functions *)

\* event hashes a list may hold
LeafHashes == {<<"h1">>, <<"h2">>, <<"h3">>, <<"h4">>}

\* the lists of at most MaxLeaves leaf hashes, duplicates allowed
LeafLists == UNION {[1..n -> LeafHashes] : n \in 0..MaxLeaves}

NoCall == [fn |-> NoneVal, value |-> NoTx]

Returned(fn, value) == [fn |-> fn, value |-> value]

CallLedgerBuildRoot ==
    /\ mk_out' = Returned("build_merkle_root", ledger_build_merkle_root(mk_hashes))
    /\ UNCHANGED <<ledger_vars, anchor_vars, policy_vars, list_vars, publish_vars, solana_vars,
                   verify_vars, parse_vars, simulate_vars, mk_hashes, mk_index>>

CallLedgerGenerateProof ==
    /\ mk_out' = Returned("generate_merkle_proof",
                          ledger_generate_merkle_proof(mk_hashes, mk_index))
    /\ UNCHANGED <<ledger_vars, anchor_vars, policy_vars, list_vars, publish_vars, solana_vars,
                   verify_vars, parse_vars, simulate_vars, mk_hashes, mk_index>>

\* the proof generated for leaf mk_index checked against the root built
\* for the list
CallLedgerVerifyProof ==
    /\ mk_hashes # <<>>
    /\ mk_out' = Returned("verify_merkle_proof",
                          ledger_verify_merkle_proof(
                              mk_hashes[mk_index + 1],
                              ledger_generate_merkle_proof(mk_hashes, mk_index),
                              ledger_build_merkle_root(mk_hashes)))
    /\ UNCHANGED <<ledger_vars, anchor_vars, policy_vars, list_vars, publish_vars, solana_vars,
                   verify_vars, parse_vars, simulate_vars, mk_hashes, mk_index>>

CallAnchorBuildRoot ==
    /\ mk_out' = Returned("anchor::build_merkle_root", anchor_build_merkle_root(mk_hashes))
    /\ UNCHANGED <<ledger_vars, anchor_vars, policy_vars, list_vars, publish_vars, solana_vars,
                   verify_vars, parse_vars, simulate_vars, mk_hashes, mk_index>>

CallCryptoComputeRoot ==
    /\ mk_out' = Returned("crypto::compute_merkle_root", crypto_compute_merkle_root(mk_hashes))
    /\ UNCHANGED <<ledger_vars, anchor_vars, policy_vars, list_vars, publish_vars, solana_vars,
                   verify_vars, parse_vars, simulate_vars, mk_hashes, mk_index>>

CallCryptoGenerateProof ==
    /\ mk_out' = Returned("crypto::generate_merkle_proof",
                          crypto_generate_merkle_proof(mk_hashes, mk_index))
    /\ UNCHANGED <<ledger_vars, anchor_vars, policy_vars, list_vars, publish_vars, solana_vars,
                   verify_vars, parse_vars, simulate_vars, mk_hashes, mk_index>>

\* the generated proof checked as test_merkle_tree checks it
CallCryptoVerifyProof ==
    /\ mk_hashes # <<>>
    /\ mk_out' = Returned("crypto::verify_merkle_proof",
                          crypto_verify_merkle_proof(
                              crypto_generate_merkle_proof(mk_hashes, mk_index)[1]))
    /\ UNCHANGED <<ledger_vars, anchor_vars, policy_vars, list_vars, publish_vars, solana_vars,
                   verify_vars, parse_vars, simulate_vars, mk_hashes, mk_index>>

----------------------------------------------------------------------------
(* chain-anchor: create_and_anchor_batch *)

AnchorRunners == {"scheduler", "trigger"}
\* the retry_batch requests, numbered in the order they are received
RetryProcs == 1..MaxRetries

Batches == {anchor_batches[i] : i \in 1..Len(anchor_batches)}

\* the position of the row with this id, 0 when there is none
BatchIndex(id) ==
    IF \E i \in 1..Len(anchor_batches) : anchor_batches[i].id = id
    THEN CHOOSE i \in 1..Len(anchor_batches) : anchor_batches[i].id = id
    ELSE 0

\* status::text of the row with this id
BatchStatus(id) ==
    IF BatchIndex(id) = 0 THEN "NotFound" ELSE anchor_batches[BatchIndex(id)].status

\* variant: the unanchored events with the highest sequence numbers
SelectUnanchoredNewest(rows, limit) ==
    LET IsUnanchored(e) == e.anchor_batch_id = NoId
        open == SelectSeq(rows, IsUnanchored)
    IN  SubSeq(open, IF Len(open) < limit THEN 1 ELSE Len(open) - limit + 1, Len(open))

\* WHERE anchor_batch_id IS NULL ORDER BY sequence_number ASC LIMIT batch_size
\* (movement_events is kept in sequence_number order)
SelectUnanchored(rows, limit) ==
    LET IsUnanchored(e) == e.anchor_batch_id = NoId
        open == SelectSeq(rows, IsUnanchored)
    IN  SubSeq(open, 1, IF Len(open) < limit THEN Len(open) ELSE limit)

\* WHERE anchor_batch_id = $1 ORDER BY sequence_number
EventsOfBatch(rows, id) ==
    LET InBatch(e) == e.anchor_batch_id = id
    IN  SelectSeq(rows, InBatch)

\* hashes.iter().position(|h| h == x).unwrap_or(0), counting from 0
PositionOrZero(hashes, x) ==
    IF \E i \in 1..Len(hashes) : hashes[i] = x
    THEN (CHOOSE i \in 1..Len(hashes) :
              hashes[i] = x /\ \A j \in 1..(i - 1) : hashes[j] # x) - 1
    ELSE 0

\* movement-ledger get_event_proof_impl: the proof returned for a stored
\* event, NoTx when it returns none
get_event_proof_impl(event) ==
    IF event.anchor_batch_id = NoId \/ BatchIndex(event.anchor_batch_id) = 0 THEN NoTx
    ELSE LET batch == anchor_batches[BatchIndex(event.anchor_batch_id)]
             batch_events == EventsOfBatch(movement_events, event.anchor_batch_id)
             hashes == [i \in 1..Len(batch_events) |-> batch_events[i].event_hash]
             target_index == PositionOrZero(hashes, event.event_hash)
         IN  << [event_hash |-> event.event_hash,
                 siblings |-> ledger_generate_merkle_proof(hashes, target_index),
                 root |-> batch.merkle_root,
                 anchor_batch_id |-> event.anchor_batch_id] >>

\* the runs and retries in progress
InFlight ==
    Cardinality({w \in AnchorRunners : ab_pc[w] # "idle"})
    + Cardinality({r \in RetryProcs : rb_pc[r] # "idle"})

NoRun == [batch_id |-> NoId, event_ids |-> <<>>, merkle_root |-> NoTx, event_count |-> 0,
          start_sequence |-> 0, end_sequence |-> 0,
          ethereum_tx_hash |-> NoTx, ethereum_block |-> NoTx,
          solana_tx_signature |-> NoTx, solana_slot |-> NoTx,
          failed |-> FALSE, next |-> 0, attempt |-> 0]

\* the query for unanchored events finds none: Ok(None)
AnchorNoEvents(w) ==
    /\ ab_pc[w] = "idle"
    /\ SelectUnanchored(movement_events, anchor_config.batch_size) = <<>>
    /\ UNCHANGED vars

\* unanchored events selected, Merkle root built, batch id drawn
AnchorSelect(w) ==
    /\ ab_pc[w] = "idle"
    /\ InFlight < MaxInFlight
    /\ batch_ctr <= MaxBatches
    /\ LET events == SelectUnanchored(movement_events, anchor_config.batch_size)
       IN  /\ events # <<>>
           /\ ab_local' = [ab_local EXCEPT ![w] =
                [NoRun EXCEPT
                   !.batch_id = batch_ctr,
                   !.event_ids = [i \in 1..Len(events) |-> events[i].id],
                   !.merkle_root = anchor_build_merkle_root(
                                      [i \in 1..Len(events) |-> events[i].event_hash]),
                   !.event_count = Len(events),
                   !.start_sequence = events[1].sequence_number,
                   !.end_sequence = events[Len(events)].sequence_number]]
    /\ batch_ctr' = batch_ctr + 1
    /\ ab_pc' = [ab_pc EXCEPT ![w] = "selected"]
    /\ UNCHANGED <<call_vars, policy_vars, ledger_vars, anchor_batches, anchor_config, rb_pc, rb_local, rb_result, retry_ctr>>

\* the row inserted with status PENDING
PendingBatch(l) ==
    [id |-> l.batch_id, merkle_root |-> l.merkle_root,
     start_sequence |-> l.start_sequence, end_sequence |-> l.end_sequence,
     event_count |-> l.event_count,
     ethereum_tx_hash |-> NoTx, ethereum_block |-> NoTx,
     solana_tx_signature |-> NoTx, solana_slot |-> NoTx,
     status |-> "PENDING", anchored_at |-> NoTx]

AnchorInsertBatch(w) ==
    /\ ab_pc[w] = "selected"
    /\ anchor_batches' = Append(anchor_batches, PendingBatch(ab_local[w]))
    /\ ab_pc' = [ab_pc EXCEPT ![w] = "pending"]
    /\ UNCHANGED <<call_vars, policy_vars, ledger_vars, anchor_config, ab_local, rb_pc, rb_local, rb_result, retry_ctr, batch_ctr>>

\* UPDATE anchor_batches SET status = 'ANCHORING' WHERE id = $1
SetAnchoring(rows, id) ==
    [i \in 1..Len(rows) |->
        IF rows[i].id = id THEN [rows[i] EXCEPT !.status = "ANCHORING"] ELSE rows[i]]

AnchorSetAnchoring(w) ==
    /\ ab_pc[w] = "pending"
    /\ anchor_batches' = SetAnchoring(anchor_batches, ab_local[w].batch_id)
    /\ ab_pc' = [ab_pc EXCEPT ![w] = "anchoring"]
    /\ UNCHANGED <<call_vars, policy_vars, ledger_vars, anchor_config, ab_local, rb_pc, rb_local, rb_result, retry_ctr, batch_ctr>>

\* the locals after the Ethereum branch; ok is the outcome of anchor_to_ethereum
AfterEthereum(l, cfg, ok) ==
    IF cfg.ethereum_enabled /\ cfg.ethereum_client
    THEN IF ok THEN [l EXCEPT !.ethereum_tx_hash = <<"eth-tx", l.batch_id, l.attempt>>,
                              !.ethereum_block = <<"eth-block", l.batch_id, l.attempt>>]
         ELSE [l EXCEPT !.failed = TRUE]
    ELSE l

\* the locals after the Solana branch; ok is the outcome of anchor_to_solana
AfterSolana(l, cfg, ok) ==
    IF cfg.solana_enabled /\ ~l.failed /\ cfg.solana_client
    THEN IF ok THEN [l EXCEPT !.solana_tx_signature = <<"sol-sig", l.batch_id, l.attempt>>,
                              !.solana_slot = <<"sol-slot", l.batch_id, l.attempt>>]
         ELSE [l EXCEPT !.failed = TRUE]
    ELSE l

\* the locals after both publication branches
Published(l, cfg, eth_ok, sol_ok) == AfterSolana(AfterEthereum(l, cfg, eth_ok), cfg, sol_ok)

\* the status written after the publications
FinalStatus(l) == IF l.failed THEN "FAILED" ELSE "CONFIRMED"

\* Some(Utc::now()) unless failed, stored in a timestamptz column
AnchoredAt(l, now) == IF ~l.failed THEN <<PgTimestamptz(now)>> ELSE NoTx

\* UPDATE anchor_batches SET status, the four substrate fields, anchored_at
UpdateBatchResult(rows, l, now) ==
    [i \in 1..Len(rows) |->
        IF rows[i].id = l.batch_id
        THEN [rows[i] EXCEPT !.status = FinalStatus(l),
                             !.ethereum_tx_hash = l.ethereum_tx_hash,
                             !.ethereum_block = l.ethereum_block,
                             !.solana_tx_signature = l.solana_tx_signature,
                             !.solana_slot = l.solana_slot,
                             !.anchored_at = AnchoredAt(l, now)]
        ELSE rows[i]]

\* the chain calls made by the section `if ethereum_enabled { .. }` followed
\* by `if solana_enabled && !failed { .. }`, in the order they are made, each
\* with its outcome
EthereumCalls(cfg, eth_ok) ==
    IF cfg.ethereum_enabled /\ cfg.ethereum_client
    THEN << [chain |-> "ethereum", ok |-> eth_ok] >>
    ELSE <<>>

\* variant: Solana is called whatever the Ethereum call returned
SolanaCallsAlways(l, cfg, sol_ok) ==
    IF cfg.solana_enabled /\ cfg.solana_client
    THEN << [chain |-> "solana", ok |-> sol_ok] >>
    ELSE <<>>

SolanaCalls(l, cfg, sol_ok) ==
    IF cfg.solana_enabled /\ ~l.failed /\ cfg.solana_client
    THEN << [chain |-> "solana", ok |-> sol_ok] >>
    ELSE <<>>

PublishCalls(l, cfg, eth_ok, sol_ok) ==
    EthereumCalls(cfg, eth_ok) \o SolanaCalls(AfterEthereum(l, cfg, eth_ok), cfg, sol_ok)

NoPublish == [attempt |-> "None", calls |-> <<>>]

\* the chain calls of an attempt, as the publication section made them
PublishLog(attempt, l, cfg, eth_ok, sol_ok) ==
    [attempt |-> attempt, calls |-> PublishCalls(l, cfg, eth_ok, sol_ok)]

\* no attempt has reached its publication section
InitPublish == pub_out = NoPublish

AssociatesAlways(l) == TRUE

\* `if !failed` before the loop that associates the events
AssociatesEvents(l) == ~l.failed

\* the two publications (calls to the chains, which touch no shared state)
\* and the UPDATE that records their outcome
AnchorPublish(w) ==
    /\ ab_pc[w] = "anchoring"
    /\ \E eth_ok \in BOOLEAN, sol_ok \in BOOLEAN, now \in ClockReadings :
         LET l == Published(ab_local[w], anchor_config, eth_ok, sol_ok)
         IN  /\ anchor_batches' = UpdateBatchResult(anchor_batches, l, now)
             /\ pub_out' = PublishLog("create", ab_local[w], anchor_config, eth_ok, sol_ok)
             /\ IF AssociatesEvents(l)
                THEN /\ ab_pc' = [ab_pc EXCEPT ![w] = "associating"]
                     /\ ab_local' = [ab_local EXCEPT ![w] = [l EXCEPT !.next = 1]]
                ELSE /\ ab_pc' = [ab_pc EXCEPT ![w] = "idle"]
                     /\ ab_local' = [ab_local EXCEPT ![w] = NoRun]
    /\ UNCHANGED <<merkle_vars, verify_vars, parse_vars, simulate_vars, list_vars, solana_vars,
                   policy_vars, ledger_vars, anchor_config, rb_pc, rb_local, rb_result,
                   retry_ctr, batch_ctr>>

\* UPDATE movement_events SET anchor_batch_id = $1 WHERE id = $2
AssociateEvent(rows, batch_id, event_id) ==
    [i \in 1..Len(rows) |->
        IF rows[i].id = event_id THEN [rows[i] EXCEPT !.anchor_batch_id = batch_id]
        ELSE rows[i]]

\* one pass of the loop over event_ids; Ok(Some(result)) after the last
AnchorAssociateEvent(w) ==
    /\ ab_pc[w] = "associating"
    /\ LET l == ab_local[w]
       IN  /\ movement_events' = AssociateEvent(movement_events, l.batch_id, l.event_ids[l.next])
           /\ IF l.next = Len(l.event_ids)
              THEN /\ ab_pc' = [ab_pc EXCEPT ![w] = "idle"]
                   /\ ab_local' = [ab_local EXCEPT ![w] = NoRun]
              ELSE /\ ab_pc' = ab_pc
                   /\ ab_local' = [ab_local EXCEPT ![w].next = l.next + 1]
    /\ UNCHANGED <<call_vars, policy_vars, last_event, ce_pc, ce_local, ce_result, uuid_ctr, anchor_batches, anchor_config, rb_pc, rb_local, rb_result, retry_ctr, batch_ctr>>

\* a statement fails: `.await?` returns the error and the run ends
AnchorDbError(w) ==
    /\ ab_pc[w] \in {"selected", "pending", "anchoring", "associating"}
    /\ ab_pc' = [ab_pc EXCEPT ![w] = "idle"]
    /\ ab_local' = [ab_local EXCEPT ![w] = NoRun]
    /\ UNCHANGED <<call_vars, policy_vars, ledger_vars, anchor_batches, anchor_config, rb_pc, rb_local, rb_result, retry_ctr, batch_ctr>>

----------------------------------------------------------------------------
(* chain-anchor: retry_batch_impl *)

NoRetryResult == [result |-> NoneVal, batch_id |-> NoId]

\* ids a retry request may name: the batches and one id that names none
RetryIds == {b.id : b \in Batches} \cup {NoId}

\* the batch is missing (NotFound) or not FAILED (InvalidInput)
RetryRejected(r) ==
    /\ rb_pc[r] = "idle"
    /\ r = retry_ctr + 1
    /\ \E id \in RetryIds :
         /\ BatchStatus(id) # "FAILED"
         /\ rb_result' = [rb_result EXCEPT ![r] =
               [result |-> IF BatchIndex(id) = 0 THEN "NotFound" ELSE "InvalidInput",
                batch_id |-> id]]
    /\ retry_ctr' = retry_ctr + 1
    /\ UNCHANGED <<call_vars, policy_vars, ledger_vars, anchor_batches, anchor_config, ab_pc, ab_local, rb_pc, rb_local, batch_ctr>>

\* the batch is read and found FAILED
RetryLoad(r) ==
    /\ rb_pc[r] = "idle"
    /\ InFlight < MaxInFlight
    /\ r = retry_ctr + 1
    /\ \E id \in RetryIds :
         /\ BatchStatus(id) = "FAILED"
         /\ LET batch == anchor_batches[BatchIndex(id)]
            IN  rb_local' = [rb_local EXCEPT ![r] =
                    [NoRun EXCEPT !.batch_id = id, !.merkle_root = batch.merkle_root,
                                  !.event_count = batch.event_count,
                                  !.attempt = r]]
    /\ rb_pc' = [rb_pc EXCEPT ![r] = "checked"]
    /\ retry_ctr' = retry_ctr + 1
    /\ UNCHANGED <<call_vars, policy_vars, ledger_vars, anchor_batches, anchor_config, ab_pc, ab_local, rb_result, batch_ctr>>

RetrySetAnchoring(r) ==
    /\ rb_pc[r] = "checked"
    /\ anchor_batches' = SetAnchoring(anchor_batches, rb_local[r].batch_id)
    /\ rb_pc' = [rb_pc EXCEPT ![r] = "anchoring"]
    /\ UNCHANGED <<call_vars, policy_vars, ledger_vars, anchor_config, ab_pc, ab_local, rb_local, rb_result, retry_ctr, batch_ctr>>

\* COALESCE($n, column)
Coalesce(new, old) == IF new # NoTx THEN new ELSE old

\* UPDATE anchor_batches SET status, COALESCE of the substrate fields and anchored_at
UpdateRetryResult(rows, l, now) ==
    [i \in 1..Len(rows) |->
        IF rows[i].id = l.batch_id
        THEN [rows[i] EXCEPT
                !.status = FinalStatus(l),
                !.ethereum_tx_hash = Coalesce(l.ethereum_tx_hash, @),
                !.ethereum_block = Coalesce(l.ethereum_block, @),
                !.solana_tx_signature = Coalesce(l.solana_tx_signature, @),
                !.solana_slot = Coalesce(l.solana_slot, @),
                !.anchored_at = Coalesce(AnchoredAt(l, now), @)]
        ELSE rows[i]]

\* the two publications and the UPDATE that records their outcome, then
\* Ok(AnchorResult)
RetryPublish(r) ==
    /\ rb_pc[r] = "anchoring"
    /\ \E eth_ok \in BOOLEAN, sol_ok \in BOOLEAN, now \in ClockReadings :
         LET l == Published(rb_local[r], anchor_config, eth_ok, sol_ok)
         IN  /\ anchor_batches' = UpdateRetryResult(anchor_batches, l, now)
             /\ pub_out' = PublishLog("retry", rb_local[r], anchor_config, eth_ok, sol_ok)
             /\ rb_result' = [rb_result EXCEPT ![r] =
                   [result |-> FinalStatus(l), batch_id |-> l.batch_id]]
    /\ rb_pc' = [rb_pc EXCEPT ![r] = "idle"]
    /\ rb_local' = [rb_local EXCEPT ![r] = NoRun]
    /\ UNCHANGED <<merkle_vars, verify_vars, parse_vars, simulate_vars, list_vars, solana_vars,
                   policy_vars, ledger_vars, anchor_config, ab_pc, ab_local, retry_ctr,
                   batch_ctr>>

\* a statement fails: `.await?` returns the error
RetryDbError(r) ==
    /\ rb_pc[r] \in {"checked", "anchoring"}
    /\ rb_result' = [rb_result EXCEPT ![r] = [result |-> "Err", batch_id |-> rb_local[r].batch_id]]
    /\ rb_pc' = [rb_pc EXCEPT ![r] = "idle"]
    /\ rb_local' = [rb_local EXCEPT ![r] = NoRun]
    /\ UNCHANGED <<call_vars, policy_vars, ledger_vars, anchor_batches, anchor_config, ab_pc, ab_local, retry_ctr, batch_ctr>>

----------------------------------------------------------------------------
(* policy-engine: PolicyEngine *)

\* a key of a bindings object: missing, an array of strings, a boolean, or
\* a value of another kind (a set, a string, ...)
Absent == <<"absent">>
Arr(items) == <<"array", items>>
Bool(b) == <<"bool", b>>
Other == <<"other">>

\* rule-set sources of the stored policies
RegoSources == {"deny_transfer", "approve_withdraw"}

\* Engine::add_policy accepts the source
RegoValid(rego_source) == rego_source \in RegoSources

\* PolicyEngine::new(), and the engine after clear()
\* no input document set
NoInput == [identity |-> NoId, action |-> NoneVal]

NewEngine == [modules |-> <<>>, loaded_policies |-> <<>>, input |-> NoInput]

\* PolicyEngine::load_policy; a source that add_policy rejects leaves the
\* engine as it was
load_policy(e, policy) ==
    IF RegoValid(policy.rego_source)
    THEN [e EXCEPT !.modules = Append(@, policy.rego_source),
                   !.loaded_policies = Append(@, policy.id)]
    ELSE e

RECURSIVE LoadAll(_, _)
LoadAll(e, rows) ==
    IF rows = <<>> THEN e ELSE LoadAll(load_policy(e, Head(rows)), Tail(rows))

\* the result of the query data.guardrail over the loaded modules
EvalQuery(modules, input) ==
    LET sources == {modules[i] : i \in 1..Len(modules)}
    IN  IF sources = {} THEN <<>>
        ELSE << [deny |-> Arr(IF "deny_transfer" \in sources /\ input.action = "transfer"
                              THEN <<"transfer denied">> ELSE <<>>),
                 require_approval |-> Arr(IF "approve_withdraw" \in sources
                                             /\ input.action = "withdraw"
                                          THEN <<"compliance">> ELSE <<>>),
                 reasons |-> Absent] >>

\* reasons.push(s) unless reasons.contains(s), for each s
RECURSIVE PushNew(_, _)
PushNew(reasons, items) ==
    IF items = <<>> THEN reasons
    ELSE PushNew(IF \E i \in 1..Len(reasons) : reasons[i] = Head(items)
                 THEN reasons ELSE Append(reasons, Head(items)),
                 Tail(items))

\* variant: require_approval taken whatever the decision so far
ParseEntryApprovalOverDeny(acc, obj) ==
    LET deny_arr == obj.deny[1] = "array" /\ obj.deny[2] # <<>>
        deny_true == obj.deny[1] = "bool" /\ obj.deny[2]
        appr_arr == obj.require_approval[1] = "array" /\ obj.require_approval[2] # <<>>
        appr_true == obj.require_approval[1] = "bool" /\ obj.require_approval[2]
    IN  [decision |-> IF appr_arr \/ appr_true THEN "REQUIRE_APPROVAL"
                      ELSE IF deny_arr \/ deny_true THEN "DENY" ELSE acc.decision,
         reasons |-> acc.reasons,
         required_approvers |-> acc.required_approvers]

\* one pass of the loop of parse_decision over a result's bindings
ParseEntry(acc, obj) ==
    LET deny_arr == obj.deny[1] = "array" /\ obj.deny[2] # <<>>
        deny_true == obj.deny[1] = "bool" /\ obj.deny[2]
        d1 == IF deny_arr \/ deny_true THEN "DENY" ELSE acc.decision
        r1 == IF deny_arr THEN acc.reasons \o obj.deny[2] ELSE acc.reasons
        appr_arr == /\ obj.require_approval[1] = "array"
                    /\ obj.require_approval[2] # <<>>
                    /\ d1 # "DENY"
        appr_true == /\ obj.require_approval[1] = "bool"
                     /\ obj.require_approval[2]
                     /\ d1 # "DENY"
    IN  [decision |-> IF appr_arr \/ appr_true THEN "REQUIRE_APPROVAL" ELSE d1,
         reasons |-> IF obj.reasons[1] = "array" THEN PushNew(r1, obj.reasons[2]) ELSE r1,
         required_approvers |-> IF appr_arr THEN acc.required_approvers \o obj.require_approval[2]
                                ELSE acc.required_approvers]

RECURSIVE ParseEntries(_, _)
ParseEntries(acc, results) ==
    IF results = <<>> THEN acc
    ELSE ParseEntries(ParseEntry(acc, Head(results)), Tail(results))

\* PolicyEngine::parse_decision
parse_decision(results) ==
    ParseEntries([decision |-> "ALLOW", reasons |-> <<>>, required_approvers |-> <<>>], results)

MaxEntries == 2        \* result entries in an evaluator result

\* the values of the keys deny and require_approval of a result entry
DenyValues ==
    {Absent, Arr(<<>>), Arr(<<"transfer denied">>), Bool(TRUE), Bool(FALSE), Other}

ApprovalValues ==
    {Absent, Arr(<<>>), Arr(<<"compliance">>), Bool(TRUE), Bool(FALSE), Other}

\* bindings objects of result entries (bindings that are not an object
\* are skipped by the loop, like an object without the three keys)
ResultEntries ==
    [deny : DenyValues, require_approval : ApprovalValues, reasons : {Absent}]
    \cup [deny : {Arr(<<"transfer denied">>)}, require_approval : {Absent},
          reasons : {Arr(<<"transfer denied">>), Arr(<<"transfer denied", "limit">>)}]

\* QueryResults values
QueryResults == UNION {[1..n -> ResultEntries] : n \in 0..MaxEntries}

NoParse == [decision |-> NoneVal, reasons |-> <<>>, required_approvers |-> <<>>]

\* parse_decision applied to the evaluator result
CallParseDecision ==
    /\ pd_out' = parse_decision(pd_result)
    /\ UNCHANGED <<ledger_vars, anchor_vars, policy_vars, list_vars, publish_vars, solana_vars,
                   merkle_vars, verify_vars, simulate_vars, pd_result>>

----------------------------------------------------------------------------
(* policy-engine: check_action_impl *)

\* the write lock of AppState.engine is taken at once
EngineLockIgnored == TRUE

\* state.engine.write().await returns: no reload is inside its locked section
EngineUnlocked == engine_lock = NoId

\* the check_action requests, numbered in the order they are received
CheckProcs == 1..MaxChecks

\* identities with is_active = true
ActiveIdentities == {1}

CheckActionRequests == [identity_id : {1, 2}, action : {"transfer", "withdraw"}]

NoCheck == [identity_id |-> NoId, input |-> NoInput, eval_result |-> NoneVal,
            policy |-> NoTx]

NoCheckResult == [status |-> NoneVal, decision_id |-> NoId, decision |-> NoneVal,
                  policy_id |-> NoId]

ErrResult(code) == [NoCheckResult EXCEPT !.status = code]

\* the identity is missing or inactive: IdentityNotFound
CheckActionIdentityNotFound(p) ==
    /\ ca_pc[p] = "idle"
    /\ p = check_ctr + 1
    /\ \E req \in CheckActionRequests :
         /\ req.identity_id \notin ActiveIdentities
         /\ ca_result' = [ca_result EXCEPT ![p] = ErrResult("IDENTITY_NOT_FOUND")]
    /\ check_ctr' = check_ctr + 1
    /\ UNCHANGED <<call_vars, ledger_vars, anchor_vars, policies, policy_decisions, engine, ca_pc,
                   ca_local, manage_vars>>

\* identity and credentials read, input document built
CheckActionBuildInput(p) ==
    /\ ca_pc[p] = "idle"
    /\ p = check_ctr + 1
    /\ \E req \in CheckActionRequests :
         /\ req.identity_id \in ActiveIdentities
         /\ ca_local' = [ca_local EXCEPT ![p] =
               [NoCheck EXCEPT !.identity_id = req.identity_id,
                               !.input = [identity |-> req.identity_id,
                                          action |-> req.action]]]
    /\ ca_pc' = [ca_pc EXCEPT ![p] = "evaluate"]
    /\ check_ctr' = check_ctr + 1
    /\ UNCHANGED <<call_vars, ledger_vars, anchor_vars, policies, policy_decisions, engine, ca_result,
                   manage_vars>>

\* regorus Engine::set_input
set_input(e, input) == [e EXCEPT !.input = input]

\* variant: the query run over the input the engine was left with
evaluateLeftInput(e, input) == parse_decision(EvalQuery(e.modules, e.input))

\* PolicyEngine::evaluate: set_input, eval_query over the engine, parse_decision
evaluate(e, input) ==
    LET set == set_input(e, input)
    IN  parse_decision(EvalQuery(set.modules, set.input))

\* check_action_impl: engine.evaluate(&input) under the write lock
CheckActionEvaluate(p) ==
    /\ ca_pc[p] = "evaluate"
    /\ EngineUnlocked
    /\ engine' = set_input(engine, ca_local[p].input)
    /\ ca_local' = [ca_local EXCEPT ![p].eval_result = evaluate(engine, ca_local[p].input)]
    /\ ca_pc' = [ca_pc EXCEPT ![p] = "select_policy"]
    /\ UNCHANGED <<call_vars, ledger_vars, anchor_vars, policies, policy_decisions, ca_result, check_ctr,
                   manage_vars>>

\* variant: a failed evaluation recorded as a DENY decision
CheckActionEvaluateFailsRecorded(p) ==
    /\ ca_pc[p] = "evaluate"
    /\ EngineUnlocked
    /\ engine' = [engine EXCEPT !.input = ca_local[p].input]
    /\ policy_decisions' =
          Append(policy_decisions,
                 [id |-> p, identity_id |-> ca_local[p].identity_id, policy_id |-> NoId,
                  policy_version |-> "1.0.0", action_type |-> ca_local[p].input.action,
                  decision |-> "DENY"])
    /\ ca_result' = [ca_result EXCEPT ![p] = ErrResult("POLICY_EVALUATION_FAILED")]
    /\ ca_pc' = [ca_pc EXCEPT ![p] = "idle"]
    /\ ca_local' = [ca_local EXCEPT ![p] = NoCheck]
    /\ UNCHANGED <<call_vars, ledger_vars, anchor_vars, policies, check_ctr, manage_vars>>

\* eval_query returns an error: PolicyEvaluation
CheckActionEvaluateFails(p) ==
    /\ ca_pc[p] = "evaluate"
    /\ EngineUnlocked
    /\ engine' = [engine EXCEPT !.input = ca_local[p].input]
    /\ ca_result' = [ca_result EXCEPT ![p] = ErrResult("POLICY_EVALUATION_FAILED")]
    /\ ca_pc' = [ca_pc EXCEPT ![p] = "idle"]
    /\ ca_local' = [ca_local EXCEPT ![p] = NoCheck]
    /\ UNCHANGED <<call_vars, ledger_vars, anchor_vars, policies, policy_decisions, check_ctr,
                   manage_vars>>

\* WHERE is_active = true ORDER BY created_at DESC LIMIT 1
NewestActivePolicy(rows) ==
    LET active == {i \in 1..Len(rows) : rows[i].is_active}
    IN  IF active = {} THEN NoTx
        ELSE <<rows[CHOOSE i \in active :
                      \A j \in active : rows[j].created_at <= rows[i].created_at]>>

CheckActionSelectPolicy(p) ==
    /\ ca_pc[p] = "select_policy"
    /\ ca_local' = [ca_local EXCEPT ![p].policy = NewestActivePolicy(policies)]
    /\ ca_pc' = [ca_pc EXCEPT ![p] = "record"]
    /\ UNCHANGED <<call_vars, ledger_vars, anchor_vars, policies, policy_decisions, engine, ca_result,
                   check_ctr, manage_vars>>

\* the policy_decisions row of a decision
DecisionRow(decision_id, l) ==
    [id |-> decision_id, identity_id |-> l.identity_id,
     policy_id |-> l.policy[1].id, policy_version |-> l.policy[1].version,
     action_type |-> l.input.action, decision |-> l.eval_result.decision]

\* the PolicyDecision returned; decision_id is a fresh Uuid::new_v4()
ReturnedDecision(decision_id, l) ==
    [status |-> "Ok", decision_id |-> decision_id, decision |-> l.eval_result.decision,
     policy_id |-> IF l.policy = NoTx THEN NoId ELSE l.policy[1].id]

\* the decision row is inserted if an active policy was found; Ok(PolicyDecision)
CheckActionRecord(p) ==
    /\ ca_pc[p] = "record"
    /\ policy_decisions' = IF ca_local[p].policy # NoTx
                           THEN Append(policy_decisions, DecisionRow(p, ca_local[p]))
                           ELSE policy_decisions
    /\ ca_result' = [ca_result EXCEPT ![p] = ReturnedDecision(p, ca_local[p])]
    /\ ca_pc' = [ca_pc EXCEPT ![p] = "idle"]
    /\ ca_local' = [ca_local EXCEPT ![p] = NoCheck]
    /\ UNCHANGED <<call_vars, ledger_vars, anchor_vars, policies, engine, check_ctr,
                   manage_vars>>

\* a statement fails: `.await?` returns the error
CheckActionDbError(p) ==
    /\ ca_pc[p] \in {"select_policy", "record"}
    /\ ca_result' = [ca_result EXCEPT ![p] = ErrResult("DATABASE_ERROR")]
    /\ ca_pc' = [ca_pc EXCEPT ![p] = "idle"]
    /\ ca_local' = [ca_local EXCEPT ![p] = NoCheck]
    /\ UNCHANGED <<call_vars, ledger_vars, anchor_vars, policies, policy_decisions, engine, check_ctr,
                   manage_vars>>

----------------------------------------------------------------------------
(* policy-engine: activate_policy_impl, reload_policies *)

MaxCreates == 1        \* create_policy requests received

\* the activate / deactivate requests, numbered in the order they are received
ActivateProcs == 1..MaxActivations

PolicyIds == {policies[i].id : i \in 1..Len(policies)}

\* the ids named by requests: the stored policies and the created ones
RequestedPolicyIds == 1..(2 + MaxCreates)

NoActivate == [policy_id |-> NoId, rows |-> <<>>]

NoManageResult == [status |-> NoneVal, policy_id |-> NoId]

ManageResult(status, policy_id) == [status |-> status, policy_id |-> policy_id]

\* UPDATE policies SET is_active = $2 WHERE id = $1
SetActive(rows, id, active) ==
    [i \in 1..Len(rows) |->
        IF rows[i].id = id THEN [rows[i] EXCEPT !.is_active = active] ELSE rows[i]]

\* SELECT ... FROM policies WHERE is_active = true
ActivePolicies(rows) ==
    LET IsActive(r) == r.is_active
    IN  SelectSeq(rows, IsActive)

\* the UPDATE finds no row: PolicyNotFound
ActivatePolicyNotFound(a) ==
    /\ ap_pc[a] = "idle"
    /\ a = ap_ctr + 1
    /\ \E id \in RequestedPolicyIds \ PolicyIds :
         ap_result' = [ap_result EXCEPT ![a] = ManageResult("POLICY_NOT_FOUND", id)]
    /\ ap_ctr' = ap_ctr + 1
    /\ UNCHANGED <<call_vars, ledger_vars, anchor_vars, policies, policy_decisions, engine, ca_pc,
                   ca_local, ca_result, check_ctr, ap_pc, ap_local, cp_pc, cp_local,
                   cp_result, cp_ctr, engine_lock>>

ActivatePolicyUpdate(a) ==
    /\ ap_pc[a] = "idle"
    /\ a = ap_ctr + 1
    /\ \E id \in PolicyIds, active \in BOOLEAN :
         /\ policies' = SetActive(policies, id, active)
         /\ ap_local' = [ap_local EXCEPT ![a] = [NoActivate EXCEPT !.policy_id = id]]
    /\ ap_pc' = [ap_pc EXCEPT ![a] = "updated"]
    /\ ap_ctr' = ap_ctr + 1
    /\ UNCHANGED <<call_vars, ledger_vars, anchor_vars, policy_decisions, engine, ca_pc, ca_local,
                   ca_result, check_ctr, ap_result, cp_pc, cp_local, cp_result, cp_ctr,
                   engine_lock>>

\* reload_policies: the active policies are read
ReloadSelect(a) ==
    /\ ap_pc[a] = "updated"
    /\ ap_local' = [ap_local EXCEPT ![a].rows = ActivePolicies(policies)]
    /\ ap_pc' = [ap_pc EXCEPT ![a] = "selected"]
    /\ UNCHANGED <<call_vars, ledger_vars, anchor_vars, policies, policy_decisions, engine, ca_pc,
                   ca_local, ca_result, check_ctr, ap_result, ap_ctr, cp_pc, cp_local,
                   cp_result, cp_ctr, engine_lock>>

\* the SELECT of reload_policies fails: `.await?` returns the error
ReloadSelectFails(a) ==
    /\ ap_pc[a] = "updated"
    /\ ap_result' = [ap_result EXCEPT ![a] = ManageResult("DATABASE_ERROR", ap_local[a].policy_id)]
    /\ ap_local' = [ap_local EXCEPT ![a] = NoActivate]
    /\ ap_pc' = [ap_pc EXCEPT ![a] = "idle"]
    /\ UNCHANGED <<call_vars, ledger_vars, anchor_vars, policies, policy_decisions, engine, ca_pc,
                   ca_local, ca_result, check_ctr, ap_ctr, cp_pc, cp_local, cp_result, cp_ctr,
                   engine_lock>>

\* reload_policies: the write lock is taken and the engine cleared
ReloadClear(a) ==
    /\ ap_pc[a] = "selected"
    /\ EngineUnlocked
    /\ engine_lock' = a
    /\ engine' = NewEngine
    /\ ap_pc' = [ap_pc EXCEPT ![a] = "loading"]
    /\ UNCHANGED <<call_vars, ledger_vars, anchor_vars, policies, policy_decisions, ca_pc,
                   ca_local, ca_result, check_ctr, ap_local, ap_result, ap_ctr, cp_pc, cp_local,
                   cp_result, cp_ctr>>

\* reload_policies: load_policy for the next row; a failure is logged
ReloadLoad(a) ==
    /\ ap_pc[a] = "loading"
    /\ ap_local[a].rows # <<>>
    /\ engine' = load_policy(engine, Head(ap_local[a].rows))
    /\ ap_local' = [ap_local EXCEPT ![a].rows = Tail(@)]
    /\ UNCHANGED <<call_vars, ledger_vars, anchor_vars, policies, policy_decisions, ca_pc,
                   ca_local, ca_result, check_ctr, ap_pc, ap_result, ap_ctr, cp_pc, cp_local,
                   cp_result, cp_ctr, engine_lock>>

\* reload_policies returns, the lock is dropped; Ok(policy)
ReloadDone(a) ==
    /\ ap_pc[a] = "loading"
    /\ ap_local[a].rows = <<>>
    /\ engine_lock' = NoId
    /\ ap_result' = [ap_result EXCEPT ![a] = ManageResult("Ok", ap_local[a].policy_id)]
    /\ ap_local' = [ap_local EXCEPT ![a] = NoActivate]
    /\ ap_pc' = [ap_pc EXCEPT ![a] = "idle"]
    /\ UNCHANGED <<call_vars, ledger_vars, anchor_vars, policies, policy_decisions, engine, ca_pc,
                   ca_local, ca_result, check_ctr, ap_ctr, cp_pc, cp_local, cp_result, cp_ctr>>

----------------------------------------------------------------------------
(* policy-engine: create_policy_impl *)

\* the create_policy requests, numbered in the order they are received
CreateProcs == 1..MaxCreates

CreatePolicyRequests == [rego_source : {"deny_transfer", "not rego"}]

\* the row INSERT INTO policies ... RETURNING gives back: a new id,
\* is_active = true
NewPolicyRow(rows, req) ==
    [id |-> Len(rows) + 1, version |-> "1.0.0", rego_source |-> req.rego_source,
     is_active |-> TRUE, created_at |-> 10 * (Len(rows) + 1)]

\* variant: the source is not tried on a test engine
SourceAccepted(rego_source) == TRUE

\* test_engine.load_policy(..)? succeeds
SourceLoads(rego_source) == RegoValid(rego_source)

\* the test engine rejects the source: PolicyEvaluation
CreatePolicyInvalid(c) ==
    /\ cp_pc[c] = "idle"
    /\ c = cp_ctr + 1
    /\ \E req \in CreatePolicyRequests :
         /\ ~SourceLoads(req.rego_source)
         /\ cp_result' = [cp_result EXCEPT ![c] = ManageResult("POLICY_EVALUATION_FAILED", NoId)]
    /\ cp_ctr' = cp_ctr + 1
    /\ UNCHANGED <<call_vars, ledger_vars, anchor_vars, policies, policy_decisions, engine, ca_pc,
                   ca_local, ca_result, check_ctr, ap_pc, ap_local, ap_result, ap_ctr, cp_pc,
                   cp_local, engine_lock>>

\* the source loads on the test engine and the row is inserted
CreatePolicyInsert(c) ==
    /\ cp_pc[c] = "idle"
    /\ c = cp_ctr + 1
    /\ \E req \in CreatePolicyRequests :
         /\ SourceLoads(req.rego_source)
         /\ policies' = Append(policies, NewPolicyRow(policies, req))
         /\ cp_local' = [cp_local EXCEPT ![c] = <<NewPolicyRow(policies, req)>>]
    /\ cp_pc' = [cp_pc EXCEPT ![c] = "inserted"]
    /\ cp_ctr' = cp_ctr + 1
    /\ UNCHANGED <<call_vars, ledger_vars, anchor_vars, policy_decisions, engine, ca_pc, ca_local,
                   ca_result, check_ctr, ap_pc, ap_local, ap_result, ap_ctr, cp_result,
                   engine_lock>>

\* the INSERT fails: `.await?` returns the error
CreatePolicyInsertFails(c) ==
    /\ cp_pc[c] = "idle"
    /\ c = cp_ctr + 1
    /\ \E req \in CreatePolicyRequests :
         /\ SourceLoads(req.rego_source)
         /\ cp_result' = [cp_result EXCEPT ![c] = ManageResult("DATABASE_ERROR", NoId)]
    /\ cp_ctr' = cp_ctr + 1
    /\ UNCHANGED <<call_vars, ledger_vars, anchor_vars, policies, policy_decisions, engine, ca_pc,
                   ca_local, ca_result, check_ctr, ap_pc, ap_local, ap_result, ap_ctr, cp_pc,
                   cp_local, engine_lock>>

\* the new policy is loaded into the live engine under the write lock
CreatePolicyLoad(c) ==
    /\ cp_pc[c] = "inserted"
    /\ EngineUnlocked
    /\ engine' = load_policy(engine, cp_local[c][1])
    /\ cp_result' = [cp_result EXCEPT ![c] = ManageResult("Ok", cp_local[c][1].id)]
    /\ cp_local' = [cp_local EXCEPT ![c] = <<>>]
    /\ cp_pc' = [cp_pc EXCEPT ![c] = "idle"]
    /\ UNCHANGED <<call_vars, ledger_vars, anchor_vars, policies, policy_decisions, ca_pc,
                   ca_local, ca_result, check_ctr, ap_pc, ap_local, ap_result, ap_ctr, cp_ctr,
                   engine_lock>>

----------------------------------------------------------------------------
(* policy-engine: simulate_policy_impl *)

SimulateRequests == [policy_id : RequestedPolicyIds, action : {"transfer", "withdraw"}]

\* the input document simulate_policy_impl builds from the request
SimulateInput(req) == [identity |-> 1, action |-> req.action]

\* get_policy_impl: the row with this id, or none
PolicyById(rows, id) ==
    LET HasId(r) == r.id = id
    IN  SelectSeq(rows, HasId)

SimResult(status, req, result) ==
    [status |-> status, policy_id |-> req.policy_id, action |-> req.action, result |-> result]

NoSim == [status |-> NoneVal, policy_id |-> NoId, action |-> NoneVal, result |-> NoParse]

\* variant: the input evaluated on every active policy of the store
simulate_with_active(rows, req) ==
    LET found == PolicyById(rows, req.policy_id)
    IN  IF found = <<>> THEN SimResult("POLICY_NOT_FOUND", req, NoParse)
        ELSE SimResult("Ok", req,
                       parse_decision(EvalQuery(LoadAll(NewEngine, ActivePolicies(rows)).modules,
                                                SimulateInput(req))))

\* simulate_policy_impl: the policy read, loaded alone into a fresh engine,
\* the input evaluated on it
simulate_policy_impl(rows, req) ==
    LET found == PolicyById(rows, req.policy_id)
    IN  IF found = <<>> THEN SimResult("POLICY_NOT_FOUND", req, NoParse)
        ELSE IF ~RegoValid(found[1].rego_source)
        THEN SimResult("POLICY_EVALUATION_FAILED", req, NoParse)
        ELSE SimResult("Ok", req,
                       parse_decision(EvalQuery(load_policy(NewEngine, found[1]).modules,
                                                SimulateInput(req))))

\* POST /api/v1/policies/:id/simulate
Simulate ==
    /\ \E req \in SimulateRequests : sim_out' = simulate_policy_impl(policies, req)
    /\ UNCHANGED <<ledger_vars, anchor_vars, policy_vars, list_vars, publish_vars, solana_vars,
                   merkle_vars, verify_vars, parse_vars>>

\* eval_query returns an error on the fresh engine: PolicyEvaluation
SimulateEvaluateFails ==
    /\ \E req \in SimulateRequests :
         /\ simulate_policy_impl(policies, req).status = "Ok"
         /\ sim_out' = SimResult("POLICY_EVALUATION_FAILED", req, NoParse)
    /\ UNCHANGED <<ledger_vars, anchor_vars, policy_vars, list_vars, publish_vars, solana_vars,
                   merkle_vars, verify_vars, parse_vars>>

----------------------------------------------------------------------------
(* an uncontended create_event call, start to finish *)

AppendEvent(req, now) ==
    /\ Len(movement_events) < MaxEvents
    /\ LET tail == ReadTail(last_event)
           l == [id |-> uuid_ctr, req |-> req, now |-> now,
                 previous_hash |-> tail[1], next_sequence |-> tail[2],
                 event_hash |-> compute_event_hash(tail[2], req.event_type, req.actor_id,
                                                   req.payload, tail[1], now)]
           event == InsertedRow(l, movement_events)
       IN  /\ movement_events' = Append(movement_events, event)
           /\ last_event' = CachedTail(event)
    /\ uuid_ctr' = uuid_ctr + 1
    /\ UNCHANGED <<call_vars, policy_vars, ce_pc, ce_local, ce_result, anchor_vars>>

----------------------------------------------------------------------------
(* movement-ledger: verify_hash_chain and verify_chain_impl *)

MaxStored == 3         \* rows of movement_events read by verify_chain

\* LIMIT of the SELECT of verify_chain_impl
QueryLimit == 10000

\* the hash verify recomputes from the fields of a row
RowHash(curr) ==
    compute_event_hash(curr.sequence_number, curr.event_type, curr.actor_id,
                       curr.payload, curr.previous_hash, curr.created_at)

\* verify_hash_chain: for i in 1..len, false at the first discrepancy
\* (i counts from 0; events[i + 1] is the Rust events[i])
RECURSIVE HashChainFrom(_, _)
HashChainFrom(events, i) ==
    IF i >= Len(events) THEN TRUE
    ELSE LET prev == events[i]
             curr == events[i + 1]
         IN  IF curr.previous_hash # prev.event_hash THEN FALSE
             ELSE IF RowHash(curr) # curr.event_hash THEN FALSE
             ELSE HashChainFrom(events, i + 1)

verify_hash_chain(events) == HashChainFrom(events, 1)

\* format!("Chain break at sequence {}: previous_hash mismatch", ..)
ChainBreak(sequence_number) == <<"Chain break at sequence", sequence_number>>

\* format!("Hash mismatch at sequence {}: computed {} != stored {}", ..)
HashMismatch(sequence_number, computed, stored) ==
    <<"Hash mismatch at sequence", sequence_number, computed, stored>>

\* the errors one iteration of the loop of verify_chain_impl pushes
StepErrors(prev, curr) ==
    (IF curr.previous_hash # prev.event_hash
     THEN <<ChainBreak(curr.sequence_number)>> ELSE <<>>)
    \o (IF RowHash(curr) # curr.event_hash
        THEN <<HashMismatch(curr.sequence_number, RowHash(curr), curr.event_hash)>>
        ELSE <<>>)

\* variant: nothing is pushed after the first error
StepErrorsUntilFirst(errors, prev, curr) ==
    IF errors # <<>> THEN errors
    ELSE LET now == StepErrors(prev, curr)
         IN  IF now = <<>> THEN <<>> ELSE <<now[1]>>

\* errors extended by one iteration
PushErrors(errors, prev, curr) == errors \o StepErrors(prev, curr)

\* the loop of verify_chain_impl: for i in 1..events.len()
RECURSIVE VerifyLoop(_, _, _)
VerifyLoop(events, i, errors) ==
    IF i >= Len(events) THEN errors
    ELSE VerifyLoop(events, i + 1, PushErrors(errors, events[i], events[i + 1]))

\* WHERE sequence_number >= $1 AND sequence_number <= $2 ORDER BY
\* sequence_number ASC LIMIT 10000; a missing to_sequence is i64::MAX, above
\* every stored number
SelectWindow(rows, from, to_sequence) ==
    LET inWindow(e) == /\ e.sequence_number >= from
                       /\ (to_sequence = NoTx \/ e.sequence_number <= to_sequence[1])
        found == SelectSeq(rows, inWindow)
    IN  IF Len(found) > QueryLimit THEN SubSeq(found, 1, QueryLimit) ELSE found

\* ChainVerifyResult
ChainVerifyResult(events, from, errors) ==
    [valid |-> errors = <<>>,
     events_checked |-> Len(events),
     from_sequence |-> from,
     to_sequence |-> IF events = <<>> THEN from ELSE events[Len(events)].sequence_number,
     errors |-> errors]

\* verify_chain_impl
verify_chain_impl(rows, query) ==
    LET from == IF query.from_sequence = NoTx THEN 1 ELSE query.from_sequence[1]
        events == SelectWindow(rows, from, query.to_sequence)
    IN  ChainVerifyResult(events, from, VerifyLoop(events, 1, <<>>))

\* VerifyChainQuery values received by GET /api/v1/ledger/verify: each
\* Option<i64> is NoTx or a one-element tuple
VerifyChainQueries ==
    [from_sequence : {NoTx} \cup {<<n>> : n \in 1..MaxStored},
     to_sequence : {NoTx} \cup {<<n>> : n \in 1..MaxStored}]

NoVerify == [fn |-> NoneVal]

\* GET /api/v1/ledger/verify
VerifyChain ==
    /\ \E query \in VerifyChainQueries :
         vc_out' = [fn |-> "verify_chain", query |-> query,
                    events |-> SelectWindow(movement_events,
                                            IF query.from_sequence = NoTx THEN 1
                                            ELSE query.from_sequence[1],
                                            query.to_sequence),
                    result |-> verify_chain_impl(movement_events, query)]
    /\ UNCHANGED <<ledger_vars, anchor_vars, policy_vars, list_vars, publish_vars, solana_vars,
                   merkle_vars, parse_vars, simulate_vars>>

\* verify_hash_chain applied to the stored rows
CallVerifyHashChain ==
    /\ vc_out' = [fn |-> "verify_hash_chain", events |-> movement_events,
                  result |-> verify_hash_chain(movement_events)]
    /\ UNCHANGED <<ledger_vars, anchor_vars, policy_vars, list_vars, publish_vars, solana_vars,
                   merkle_vars, parse_vars, simulate_vars>>

----------------------------------------------------------------------------

(* movement-ledger: list_events *)

\* ListEventsQuery values received by GET /api/v1/events
ListEventsQueries ==
    [page : {NoTx, <<0>>, <<2>>}, per_page : {NoTx, <<1>>},
     event_type : {NoTx, <<"SystemEvent">>},
     actor_id : {NoTx, <<"actor-1">>},
     from_date : {NoTx, <<2000>>}, to_date : {NoTx, <<1000>>},
     anchored_only : {NoTx, <<TRUE>>, <<FALSE>>}]

\* ORDER BY sequence_number DESC over a set of rows
RECURSIVE OrderBySequenceDesc(_)
OrderBySequenceDesc(S) ==
    IF S = {} THEN <<>>
    ELSE LET top == CHOOSE x \in S : \A y \in S : y.sequence_number <= x.sequence_number
         IN  <<top>> \o OrderBySequenceDesc(S \ {top})

\* the WHERE clause of both statements of list_events_impl: actor_id,
\* created_at >= from_date, created_at <= to_date, anchored_only
ListWhere(e, query) ==
    /\ query.actor_id = NoTx \/ e.actor_id = query.actor_id[1]
    /\ query.from_date = NoTx \/ e.created_at >= query.from_date[1]
    /\ query.to_date = NoTx \/ e.created_at <= query.to_date[1]
    /\ \/ query.anchored_only = NoTx
       \/ query.anchored_only[1] /\ e.anchor_batch_id # NoId
       \/ ~query.anchored_only[1]

\* list_events_impl: the page of matching rows and the count of all matching rows
list_events_impl(rows, offset, limit, query) ==
    LET found == OrderBySequenceDesc({rows[i] : i \in {j \in 1..Len(rows) : ListWhere(rows[j], query)}})
        last == IF offset + limit < Len(found) THEN offset + limit ELSE Len(found)
    IN  [events |-> SubSeq(found, offset + 1, last), total |-> Len(found)]

\* list_events: page.unwrap_or(1).max(1), per_page.unwrap_or(50).min(500),
\* offset = (page - 1) * per_page
list_events(rows, query) ==
    LET p == IF query.page = NoTx THEN 1 ELSE query.page[1]
        page == IF p < 1 THEN 1 ELSE p
        pp == IF query.per_page = NoTx THEN 50 ELSE query.per_page[1]
        per_page == IF pp > 500 THEN 500 ELSE pp
        found == list_events_impl(rows, (page - 1) * per_page, per_page, query)
    IN  [query |-> query, events |-> found.events, total |-> found.total,
         page |-> page, per_page |-> per_page]

NoList ==
    [query |-> [page |-> NoTx, per_page |-> NoTx, event_type |-> NoTx, actor_id |-> NoTx,
                from_date |-> NoTx, to_date |-> NoTx, anchored_only |-> NoTx],
     events |-> <<>>, total |-> 0, page |-> 0, per_page |-> 0]

\* GET /api/v1/events
ListEvents ==
    /\ \E query \in ListEventsQueries : le_out' = list_events(movement_events, query)
    /\ UNCHANGED <<ledger_vars, anchor_vars, policy_vars, merkle_vars, verify_vars, parse_vars,
                   simulate_vars, publish_vars, solana_vars>>

\* no list_events call made
InitList == le_out = NoList

----------------------------------------------------------------------------
(* Solana program guardrail_anchor *)

MaxSolBatches == 2     \* Batch accounts created

\* the signers of the instructions sent to the program
Pubkeys == {"deployer", "anchor-1", "outsider"}

\* Pubkey::default(), and the absent optional account
NoKey == "none"

\* [u8; 16] of a batch id: Uuid::as_bytes
UuidBytes(id) == [i \in 1..16 |-> IF i = 16 THEN id ELSE 0]

\* the Merkle roots published, as hex strings, and hex::decode of each: 32 bytes
HexRoots == {"aa.."}
hex_decode(root) == [i \in 1..32 |-> IF root = "aa.." THEN 170 ELSE 187]

SolBatchIds == {UuidBytes(id) : id \in 1..MaxSolBatches}
SolRoots == {hex_decode(root) : root \in HexRoots}
SolEventCounts == {2}

\* ProgramState before initialize (no account) and as initialize writes it
NoProgramState ==
    [initialized |-> FALSE, authority |-> NoKey, total_batches |-> 0, total_events |-> 0,
     paused |-> FALSE]

InitializedState(authority) ==
    [initialized |-> TRUE, authority |-> authority, total_batches |-> 0, total_events |-> 0,
     paused |-> FALSE]

\* the Batch account store_batch writes
BatchAccount(batch_id, merkle_root, event_count, anchor) ==
    [batch_id |-> batch_id, merkle_root |-> merkle_root, event_count |-> event_count,
     anchor |-> anchor]

SolResult(ix, signer, status, args) ==
    [ix |-> ix, signer |-> signer, status |-> status, args |-> args, sent |-> <<>>]

NoSolResult == SolResult(NoneVal, NoneVal, NoneVal, <<>>)

\* constraint state.authority == authority.key() @ Unauthorized, on an
\* existing state account
AuthorityStatus(state, signer) ==
    IF ~state.initialized THEN "AccountNotInitialized"
    ELSE IF state.authority # signer THEN "Unauthorized"
    ELSE "Ok"

\* initialize: the state account is created (init) and written
SolInitialize ==
    /\ \E signer \in Pubkeys :
         IF sol_state.initialized
         THEN /\ sol_out' = SolResult("initialize", signer, "AccountAlreadyInUse", <<>>)
              /\ sol_state' = sol_state
         ELSE /\ sol_out' = SolResult("initialize", signer, "Ok", <<>>)
              /\ sol_state' = InitializedState(signer)
    /\ UNCHANGED <<ledger_vars, anchor_vars, policy_vars, merkle_vars, verify_vars, parse_vars,
                   simulate_vars, list_vars, publish_vars, sol_authorized, sol_batches>>

\* variant of the checks of store_batch without require!(!state.paused)
StoreBatchStatusNoPause(state, authorized, batches, signer, authorized_anchor, batch_id) ==
    IF ~state.initialized THEN "AccountNotInitialized"
    ELSE IF \E i \in 1..Len(batches) : batches[i].batch_id = batch_id
    THEN "AccountAlreadyInUse"
    ELSE IF authorized_anchor # NoKey /\ authorized_anchor \notin authorized
    THEN "AccountNotInitialized"
    ELSE IF authorized_anchor # NoKey /\ authorized_anchor # signer THEN "ConstraintSeeds"
    ELSE "Ok"

\* the checks of store_batch, in the order they run: the accounts of
\* StoreBatch (state exists; batch is created at seeds ["batch", batch_id];
\* the optional authorized_anchor, when given, is an existing account at seeds
\* ["authorized", anchor.key()]), then require!(!state.paused) of the handler
StoreBatchStatus(state, authorized, batches, signer, authorized_anchor, batch_id) ==
    IF ~state.initialized THEN "AccountNotInitialized"
    ELSE IF \E i \in 1..Len(batches) : batches[i].batch_id = batch_id
    THEN "AccountAlreadyInUse"
    ELSE IF authorized_anchor # NoKey /\ authorized_anchor \notin authorized
    THEN "AccountNotInitialized"
    ELSE IF authorized_anchor # NoKey /\ authorized_anchor # signer THEN "ConstraintSeeds"
    ELSE IF state.paused THEN "Paused"
    ELSE "Ok"

\* the state after a store_batch that passed its checks
StoredState(state, event_count) ==
    [state EXCEPT !.total_batches = @ + 1, !.total_events = @ + event_count]

\* store_batch sent with all the accounts of StoreBatch; a failed
\* instruction leaves every account as it was
SolStoreBatch ==
    /\ Len(sol_batches) < MaxSolBatches
    /\ \E signer \in Pubkeys, authorized_anchor \in Pubkeys \cup {NoKey},
          batch_id \in SolBatchIds, merkle_root \in SolRoots, event_count \in SolEventCounts :
         LET status == StoreBatchStatus(sol_state, sol_authorized, sol_batches, signer,
                                        authorized_anchor, batch_id)
         IN  /\ sol_out' = SolResult("store_batch", signer, status,
                                     <<batch_id, merkle_root, event_count>>)
             /\ IF status = "Ok"
                THEN /\ sol_batches' = Append(sol_batches,
                            BatchAccount(batch_id, merkle_root, event_count, signer))
                     /\ sol_state' = StoredState(sol_state, event_count)
                ELSE UNCHANGED <<sol_batches, sol_state>>
    /\ UNCHANGED <<ledger_vars, anchor_vars, policy_vars, merkle_vars, verify_vars, parse_vars,
                   simulate_vars, list_vars, publish_vars, sol_authorized>>

\* authorize_anchor: signed by the authority, creates the AuthorizedAnchor
\* account of new_anchor
SolAuthorizeAnchor ==
    /\ \E signer \in Pubkeys, new_anchor \in Pubkeys :
         LET status == IF AuthorityStatus(sol_state, signer) # "Ok"
                       THEN AuthorityStatus(sol_state, signer)
                       ELSE IF new_anchor \in sol_authorized THEN "AccountAlreadyInUse"
                       ELSE "Ok"
         IN  /\ sol_out' = SolResult("authorize_anchor", signer, status, <<new_anchor>>)
             /\ sol_authorized' = IF status = "Ok" THEN sol_authorized \cup {new_anchor}
                                  ELSE sol_authorized
    /\ UNCHANGED <<ledger_vars, anchor_vars, policy_vars, merkle_vars, verify_vars, parse_vars,
                   simulate_vars, list_vars, publish_vars, sol_state, sol_batches>>

\* revoke_anchor: signed by the authority, closes the AuthorizedAnchor account
SolRevokeAnchor ==
    /\ \E signer \in Pubkeys, anchor \in Pubkeys :
         LET status == IF AuthorityStatus(sol_state, signer) # "Ok"
                       THEN AuthorityStatus(sol_state, signer)
                       ELSE IF anchor \notin sol_authorized THEN "AccountNotInitialized"
                       ELSE "Ok"
         IN  /\ sol_out' = SolResult("revoke_anchor", signer, status, <<anchor>>)
             /\ sol_authorized' = IF status = "Ok" THEN sol_authorized \ {anchor}
                                  ELSE sol_authorized
    /\ UNCHANGED <<ledger_vars, anchor_vars, policy_vars, merkle_vars, verify_vars, parse_vars,
                   simulate_vars, list_vars, publish_vars, sol_state, sol_batches>>

\* the state after pause (paused = true) or unpause (paused = false), which
\* the constraint on Pause lets only the authority run
SetPaused(state, signer, paused) ==
    IF AuthorityStatus(state, signer) = "Ok" THEN [state EXCEPT !.paused = paused] ELSE state

\* pause
SolPause ==
    /\ \E signer \in Pubkeys :
         /\ sol_out' = SolResult("pause", signer, AuthorityStatus(sol_state, signer), <<>>)
         /\ sol_state' = SetPaused(sol_state, signer, TRUE)
    /\ UNCHANGED <<ledger_vars, anchor_vars, policy_vars, merkle_vars, verify_vars, parse_vars,
                   simulate_vars, list_vars, publish_vars, sol_authorized, sol_batches>>

\* unpause
SolUnpause ==
    /\ \E signer \in Pubkeys :
         /\ sol_out' = SolResult("unpause", signer, AuthorityStatus(sol_state, signer), <<>>)
         /\ sol_state' = SetPaused(sol_state, signer, FALSE)
    /\ UNCHANGED <<ledger_vars, anchor_vars, policy_vars, merkle_vars, verify_vars, parse_vars,
                   simulate_vars, list_vars, publish_vars, sol_authorized, sol_batches>>

\* the first 8 bytes of SHA256("global:store_batch")
StoreBatchDiscriminator == [i \in 1..8 |-> 200 + i]

\* u32::from_le_bytes
RECURSIVE FromLeBytes(_)
FromLeBytes(bytes) ==
    IF bytes = <<>> THEN 0 ELSE Head(bytes) + 256 * FromLeBytes(Tail(bytes))

\* anchor_to_solana: the instruction data, in the order the adapter
\* appends the fields: discriminator, merkle root, batch id, event count
AdapterInstructionData(merkle_root, batch_id, event_count) ==
    StoreBatchDiscriminator \o hex_decode(merkle_root) \o UuidBytes(batch_id)
        \o LeBytes(event_count, 4)

\* the arguments store_batch receives: the bytes after the discriminator
\* read in the declared order batch_id: [u8; 16], merkle_root: [u8; 32],
\* event_count: u32
StoreBatchArgs(data) ==
    <<SubSeq(data, 9, 24), SubSeq(data, 25, 56), FromLeBytes(SubSeq(data, 57, 60))>>

\* the accounts anchor_to_solana lists in its instruction: the payer only
AdapterAccounts(payer) == <<payer>>

\* the accounts of StoreBatch that must be present: state, batch, anchor,
\* system_program (authorized_anchor is optional)
StoreBatchAccountsStatus(accounts) ==
    IF Len(accounts) < 4 THEN "NotEnoughAccountKeys" ELSE "Ok"

\* anchor_to_solana: the instruction is built and sent; the program reads
\* the arguments and then its accounts
SolAdapterPublish ==
    /\ \E payer \in Pubkeys, merkle_root \in HexRoots, batch_id \in 1..MaxSolBatches,
          event_count \in SolEventCounts :
         LET data == AdapterInstructionData(merkle_root, batch_id, event_count)
             status == StoreBatchAccountsStatus(AdapterAccounts(payer))
         IN  /\ status # "Ok"
             /\ sol_out' = [SolResult("store_batch", payer, status, StoreBatchArgs(data))
                              EXCEPT !.sent = <<UuidBytes(batch_id), hex_decode(merkle_root),
                                                event_count>>]
    /\ UNCHANGED <<ledger_vars, anchor_vars, policy_vars, merkle_vars, verify_vars, parse_vars,
                   simulate_vars, list_vars, publish_vars, sol_state, sol_authorized,
                   sol_batches>>

\* the program as deployed: no account exists
InitProgram ==
    /\ sol_state = NoProgramState
    /\ sol_authorized = {}
    /\ sol_batches = <<>>
    /\ sol_out = NoSolResult

----------------------------------------------------------------------------
(* initial state of the calls *)

\* the calls no specification makes are in their initial state
InitOther == InitList /\ InitPublish /\ InitProgram

----------------------------------------------------------------------------
InitLedger ==
    /\ movement_events = <<>>
    /\ last_event = TailRow(<<>>)
    /\ ce_pc = [p \in LedgerProcs |-> "idle"]
    /\ ce_local = [p \in LedgerProcs |-> NoLocal]
    /\ ce_result = [p \in LedgerProcs |-> NoneVal]
    /\ uuid_ctr = 1

\* chain-anchor main: the configuration read from the environment; a chain
\* client exists only when the chain is enabled and its settings are present
AnchorConfigs ==
    { c \in [batch_size : 1..MaxBatchSize,
             ethereum_enabled : BOOLEAN, ethereum_client : BOOLEAN,
             solana_enabled : BOOLEAN, solana_client : BOOLEAN] :
        /\ c.ethereum_client => c.ethereum_enabled
        /\ c.solana_client => c.solana_enabled }

\* AnchorConfig::default()
DefaultConfig ==
    [batch_size |-> MaxBatchSize, ethereum_enabled |-> FALSE, ethereum_client |-> FALSE,
     solana_enabled |-> FALSE, solana_client |-> FALSE]

InitAnchor(configs) ==
    /\ anchor_batches = <<>>
    /\ anchor_config \in configs
    /\ ab_pc = [w \in AnchorRunners |-> "idle"]
    /\ ab_local = [w \in AnchorRunners |-> NoRun]
    /\ rb_pc = [r \in RetryProcs |-> "idle"]
    /\ rb_local = [r \in RetryProcs |-> NoRun]
    /\ rb_result = [r \in RetryProcs |-> NoRetryResult]
    /\ retry_ctr = 0
    /\ batch_ctr = 1

\* the stored policies; policy-engine main loads the active ones
StoredPolicies(active1, active2) ==
    << [id |-> 1, version |-> "1.0.0", rego_source |-> "deny_transfer",
        is_active |-> active1, created_at |-> 10],
       [id |-> 2, version |-> "1.0.0", rego_source |-> "approve_withdraw",
        is_active |-> active2, created_at |-> 20] >>

PolicyTables == {StoredPolicies(a1, a2) : a1 \in BOOLEAN, a2 \in BOOLEAN}

InitPolicy(tables) ==
    /\ policies \in tables
    /\ policy_decisions = <<>>
    /\ engine = LoadAll(NewEngine, ActivePolicies(policies))
    /\ ca_pc = [p \in CheckProcs |-> "idle"]
    /\ ca_local = [p \in CheckProcs |-> NoCheck]
    /\ ca_result = [p \in CheckProcs |-> NoCheckResult]
    /\ check_ctr = 0
    /\ ap_pc = [a \in ActivateProcs |-> "idle"]
    /\ ap_local = [a \in ActivateProcs |-> NoActivate]
    /\ ap_result = [a \in ActivateProcs |-> NoManageResult]
    /\ ap_ctr = 0
    /\ cp_pc = [c \in CreateProcs |-> "idle"]
    /\ cp_local = [c \in CreateProcs |-> <<>>]
    /\ cp_result = [c \in CreateProcs |-> NoManageResult]
    /\ cp_ctr = 0
    /\ engine_lock = NoId
    /\ sim_out = NoSim

\* no Merkle function called
InitMerkle(lists) ==
    /\ mk_hashes \in lists
    /\ mk_index \in {i \in 0..MaxLeaves : i = 0 \/ i < Len(mk_hashes)}
    /\ mk_out = NoCall

\* no verify_chain call made
InitVerify == vc_out = NoVerify

\* no parse_decision call made
InitParse(results) ==
    /\ pd_result \in results
    /\ pd_out = NoParse

Init ==
    /\ InitLedger /\ InitAnchor({DefaultConfig}) /\ InitPolicy({StoredPolicies(FALSE, FALSE)})
    /\ InitMerkle({<<>>}) /\ InitVerify /\ InitOther /\ InitParse({<<>>})

MerkleInit ==
    /\ InitLedger /\ InitAnchor({DefaultConfig}) /\ InitPolicy({StoredPolicies(FALSE, FALSE)})
    /\ InitMerkle(LeafLists) /\ InitVerify /\ InitOther /\ InitParse({<<>>})

AnchorInit ==
    /\ InitLedger /\ InitAnchor(AnchorConfigs) /\ InitPolicy({StoredPolicies(FALSE, FALSE)})
    /\ InitMerkle({<<>>}) /\ InitVerify /\ InitOther /\ InitParse({<<>>})

PolicyInit ==
    /\ InitLedger /\ InitAnchor({DefaultConfig}) /\ InitPolicy(PolicyTables)
    /\ InitMerkle({<<>>}) /\ InitVerify /\ InitOther /\ InitParse({<<>>})

\* the request of the events appended while the anchor or the policy engine runs
SampleRequest ==
    [event_type |-> "SystemEvent", actor_id |-> "actor-1",
     policy_decision_id |-> NoId, payload |-> "{}"]

AnchorNext ==
    \/ AppendEvent(SampleRequest, 1000)
    \/ \E w \in AnchorRunners : AnchorNoEvents(w)
    \/ \E w \in AnchorRunners : AnchorSelect(w)
    \/ \E w \in AnchorRunners : AnchorInsertBatch(w)
    \/ \E w \in AnchorRunners : AnchorSetAnchoring(w)
    \/ \E w \in AnchorRunners : AnchorPublish(w)
    \/ \E w \in AnchorRunners : AnchorAssociateEvent(w)
    \/ \E w \in AnchorRunners : AnchorDbError(w)
    \/ \E r \in RetryProcs : RetryRejected(r)
    \/ \E r \in RetryProcs : RetryLoad(r)
    \/ \E r \in RetryProcs : RetrySetAnchoring(r)
    \/ \E r \in RetryProcs : RetryPublish(r)
    \/ \E r \in RetryProcs : RetryDbError(r)

AnchorSpec == AnchorInit /\ [][AnchorNext]_vars

MerkleNext ==
    \/ CallLedgerBuildRoot
    \/ CallLedgerGenerateProof
    \/ CallLedgerVerifyProof
    \/ CallAnchorBuildRoot
    \/ CallCryptoComputeRoot
    \/ CallCryptoGenerateProof
    \/ CallCryptoVerifyProof

MerkleSpec == MerkleInit /\ [][MerkleNext]_vars

PolicyNext ==
    \/ AppendEvent(SampleRequest, 1000)
    \/ \E p \in CheckProcs : CheckActionIdentityNotFound(p)
    \/ \E p \in CheckProcs : CheckActionBuildInput(p)
    \/ \E p \in CheckProcs : CheckActionEvaluate(p)
    \/ \E p \in CheckProcs : CheckActionEvaluateFails(p)
    \/ \E p \in CheckProcs : CheckActionSelectPolicy(p)
    \/ \E p \in CheckProcs : CheckActionRecord(p)
    \/ \E p \in CheckProcs : CheckActionDbError(p)
    \/ \E a \in ActivateProcs : ActivatePolicyNotFound(a)
    \/ \E a \in ActivateProcs : ActivatePolicyUpdate(a)
    \/ \E a \in ActivateProcs : ReloadSelect(a)
    \/ \E a \in ActivateProcs : ReloadSelectFails(a)
    \/ \E a \in ActivateProcs : ReloadClear(a)
    \/ \E a \in ActivateProcs : ReloadLoad(a)
    \/ \E a \in ActivateProcs : ReloadDone(a)

PolicySpec == PolicyInit /\ [][PolicyNext]_vars

\* the policy engine under create, activate and deactivate requests
ManageNext ==
    \/ \E p \in CheckProcs : CheckActionIdentityNotFound(p)
    \/ \E p \in CheckProcs : CheckActionBuildInput(p)
    \/ \E p \in CheckProcs : CheckActionEvaluate(p)
    \/ \E p \in CheckProcs : CheckActionEvaluateFails(p)
    \/ \E p \in CheckProcs : CheckActionSelectPolicy(p)
    \/ \E p \in CheckProcs : CheckActionRecord(p)
    \/ \E p \in CheckProcs : CheckActionDbError(p)
    \/ \E a \in ActivateProcs : ActivatePolicyNotFound(a)
    \/ \E a \in ActivateProcs : ActivatePolicyUpdate(a)
    \/ \E a \in ActivateProcs : ReloadSelect(a)
    \/ \E a \in ActivateProcs : ReloadSelectFails(a)
    \/ \E a \in ActivateProcs : ReloadClear(a)
    \/ \E a \in ActivateProcs : ReloadLoad(a)
    \/ \E a \in ActivateProcs : ReloadDone(a)
    \/ \E c \in CreateProcs : CreatePolicyInvalid(c)
    \/ \E c \in CreateProcs : CreatePolicyInsert(c)
    \/ \E c \in CreateProcs : CreatePolicyInsertFails(c)
    \/ \E c \in CreateProcs : CreatePolicyLoad(c)

ManageSpec == PolicyInit /\ [][ManageNext]_vars

\* simulate_policy calls while policies are created, activated and deactivated
SimulateNext ==
    \/ Simulate
    \/ SimulateEvaluateFails
    \/ \E a \in ActivateProcs : ActivatePolicyNotFound(a)
    \/ \E a \in ActivateProcs : ActivatePolicyUpdate(a)
    \/ \E a \in ActivateProcs : ReloadSelect(a)
    \/ \E a \in ActivateProcs : ReloadSelectFails(a)
    \/ \E a \in ActivateProcs : ReloadClear(a)
    \/ \E a \in ActivateProcs : ReloadLoad(a)
    \/ \E a \in ActivateProcs : ReloadDone(a)
    \/ \E c \in CreateProcs : CreatePolicyInvalid(c)
    \/ \E c \in CreateProcs : CreatePolicyInsert(c)
    \/ \E c \in CreateProcs : CreatePolicyInsertFails(c)
    \/ \E c \in CreateProcs : CreatePolicyLoad(c)

SimulateSpec == PolicyInit /\ [][SimulateNext]_vars

\* rows after one more create_event with the given request and clock reading
AppendRow(rows, req, now) ==
    LET tail == ReadTail(TailRow(rows))
        l == [id |-> Len(rows) + 1, req |-> req, now |-> now,
              previous_hash |-> tail[1], next_sequence |-> tail[2],
              event_hash |-> compute_event_hash(tail[2], req.event_type, req.actor_id,
                                                req.payload, tail[1], now)]
    IN  Append(rows, InsertedRow(l, rows))

\* the table of n rows create_event builds, each row with the clock
\* reading on a microsecond boundary
RECURSIVE AppendedTable(_)
AppendedTable(n) ==
    IF n = 0 THEN <<>>
    ELSE AppendRow(AppendedTable(n - 1), SampleRequest, 1000)

\* columns of a stored row changed in place after the insert
TamperFields == {"payload", "previous_hash", "event_hash"}

TamperedRow(row, fields) ==
    [row EXCEPT
        !.payload = IF "payload" \in fields THEN "{\"tampered\":true}" ELSE @,
        !.previous_hash = IF "previous_hash" \in fields THEN <<"broken">> ELSE @,
        !.event_hash = IF "event_hash" \in fields THEN <<"forged">> ELSE @]

\* the tables verify_chain reads: up to max appended rows, any of them
\* changed in place
TamperedTables(rows) ==
    {[i \in 1..Len(rows) |-> TamperedRow(rows[i], t[i])] :
        t \in [1..Len(rows) -> SUBSET TamperFields]}

StoredTables(max) == UNION {TamperedTables(AppendedTable(n)) : n \in 0..max}

VerifyInit ==
    /\ movement_events \in StoredTables(MaxStored)
    /\ last_event = TailRow(movement_events)
    /\ ce_pc = [p \in LedgerProcs |-> "idle"]
    /\ ce_local = [p \in LedgerProcs |-> NoLocal]
    /\ ce_result = [p \in LedgerProcs |-> NoneVal]
    /\ uuid_ctr = Len(movement_events) + 1
    /\ InitAnchor({DefaultConfig}) /\ InitPolicy({StoredPolicies(FALSE, FALSE)})
    /\ InitMerkle({<<>>}) /\ InitVerify /\ InitOther /\ InitParse({<<>>})

VerifyNext ==
    \/ VerifyChain
    \/ CallVerifyHashChain

VerifySpec == VerifyInit /\ [][VerifyNext]_vars

ParseInit ==
    /\ InitLedger /\ InitAnchor({DefaultConfig}) /\ InitPolicy({StoredPolicies(FALSE, FALSE)})
    /\ InitMerkle({<<>>}) /\ InitVerify /\ InitOther /\ InitParse(QueryResults)

ParseNext == CallParseDecision

ParseSpec == ParseInit /\ [][ParseNext]_vars

\* rows as create_event inserts them one second apart, some of them
\* associated with a batch
ListedRequests ==
    [event_type : EventTypes, actor_id : {"actor-1", "actor-2"},
     policy_decision_id : {NoId}, payload : Payloads]

MaxListed == 2         \* rows in movement_events when list_events is called

ListedRow(rows, req, now, anchored) ==
    LET appended == AppendRow(rows, req, now)
    IN  IF anchored THEN AssociateEvent(appended, 1, Len(appended)) ELSE appended

RECURSIVE ListedTables(_)
ListedTables(n) ==
    IF n = 0 THEN {<<>>}
    ELSE LET shorter == ListedTables(n - 1)
         IN  shorter \cup
             {ListedRow(rows, req, 1000 * n, anchored) :
                 rows \in {t \in shorter : Len(t) = n - 1}, req \in ListedRequests,
                 anchored \in BOOLEAN}

ListInit ==
    /\ movement_events \in ListedTables(MaxListed)
    /\ last_event = TailRow(movement_events)
    /\ ce_pc = [p \in LedgerProcs |-> "idle"]
    /\ ce_local = [p \in LedgerProcs |-> NoLocal]
    /\ ce_result = [p \in LedgerProcs |-> NoneVal]
    /\ uuid_ctr = Len(movement_events) + 1
    /\ InitAnchor({DefaultConfig}) /\ InitPolicy({StoredPolicies(FALSE, FALSE)})
    /\ InitMerkle({<<>>}) /\ InitVerify /\ InitOther /\ InitParse({<<>>})

ListNext == ListEvents

ListSpec == ListInit /\ [][ListNext]_vars

SolanaNext ==
    \/ SolInitialize
    \/ SolStoreBatch
    \/ SolAuthorizeAnchor
    \/ SolRevokeAnchor
    \/ SolPause
    \/ SolUnpause
    \/ SolAdapterPublish

SolanaSpec == Init /\ [][SolanaNext]_vars
Next ==
    \/ \E p \in LedgerProcs : CreateEventReadTail(p)
    \/ \E p \in LedgerProcs : CreateEventInsert(p)
    \/ \E p \in LedgerProcs : CreateEventInsertFails(p)
    \/ \E p \in LedgerProcs : CreateEventUpdateCache(p)
    \/ \E p \in LedgerProcs : CreateEventCancelled(p)
    \/ LedgerRestart

Spec == Init /\ [][Next]_vars

----------------------------------------------------------------------------
(* Ledger properties *)

Events == {movement_events[i] : i \in 1..Len(movement_events)}

AllIdle == \A p \in LedgerProcs : ce_pc[p] = "idle"

\* the hash recomputed from the stored fields of a row
RecomputedHash(e) ==
    compute_event_hash(e.sequence_number, e.event_type, e.actor_id, e.payload,
                       e.previous_hash, e.created_at)

\* C1: the event with sequence_number 1 has the genesis previous_hash and
\* every event with sequence_number n > 1 has the event_hash of event n-1
\* as previous_hash, in every reachable state of the ledger.
C1_ChainLinkage ==
    \A e \in Events :
        /\ e.sequence_number = 1 => e.previous_hash = GENESIS_HASH
        /\ e.sequence_number > 1 =>
             \E prev \in Events : /\ prev.sequence_number = e.sequence_number - 1
                                  /\ e.previous_hash = prev.event_hash

\* C2: the sequence numbers of the persisted events are exactly 1..N, with
\* no gap and no duplicate; a failed create_event consumes no number.
C2_ChainDensity ==
    /\ {e.sequence_number : e \in Events} = 1..Len(movement_events)
    /\ \A i, j \in 1..Len(movement_events) :
         movement_events[i].sequence_number = movement_events[j].sequence_number => i = j

\* C2 witness: two events persisted after a create_event that failed
C2_Witness ==
    /\ Len(movement_events) = 2
    /\ \E p \in LedgerProcs : ce_result[p] = "Err"

\* C3: for every persisted event, the hash recomputed from the stored
\* sequence_number, event_type, actor_id, payload, previous_hash and
\* created_at is the stored event_hash.
C3_HashDeterminism == \A e \in Events : RecomputedHash(e) = e.event_hash

\* C4: N concurrent create_event calls on an empty ledger, all returned Ok,
\* leave exactly N events numbered 1..N that form a valid chain (linkage
\* and recomputed hash), and the tail cache points at event N.
C4_ConcurrentAppend ==
    (/\ uuid_ctr = NumAppenders + 1
     /\ AllIdle
     /\ \A p \in LedgerProcs : ce_result[p] = "Ok")
    => /\ Len(movement_events) = NumAppenders
       /\ C2_ChainDensity
       /\ C1_ChainLinkage
       /\ C3_HashDeterminism
       /\ last_event = TailRow(movement_events)

----------------------------------------------------------------------------
(* Policy engine properties *)

\* the persisted policy-decision events that carry this decision id
DecisionEvents(decision_id) ==
    {i \in 1..Len(movement_events) :
        /\ movement_events[i].event_type = "PolicyDecision"
        /\ movement_events[i].policy_decision_id = decision_id}

\* C5: every check_action that returned a decision has exactly one
\* persisted event of type policy-decision carrying the returned
\* decision_id as policy_decision_id.
C5_DecisionHasLedgerEvent ==
    \A p \in CheckProcs :
        ca_result[p].status = "Ok" =>
            Cardinality(DecisionEvents(ca_result[p].decision_id)) = 1

----------------------------------------------------------------------------
(* Anchor properties *)

\* the batch row with this id
BatchRow(id) == anchor_batches[BatchIndex(id)]

\* C6: a CONFIRMED batch has a recorded transaction identifier for every
\* enabled substrate: an Ethereum transaction hash when ethereum_enabled, a
\* Solana signature when solana_enabled.
C6_ConfirmedOnEveryEnabledSubstrate ==
    \A b \in Batches :
        b.status = "CONFIRMED" =>
            /\ anchor_config.ethereum_enabled => b.ethereum_tx_hash # NoTx
            /\ anchor_config.solana_enabled => b.solana_tx_signature # NoTx

\* C7: every event with a non-null anchor_batch_id refers to a batch whose
\* status is CONFIRMED, and a batch whose status is FAILED has no events
\* associated with it.
C7_AssociatedOnlyWhenConfirmed ==
    /\ \A e \in Events :
         e.anchor_batch_id # NoId => BatchStatus(e.anchor_batch_id) = "CONFIRMED"
    /\ \A b \in Batches :
         b.status = "FAILED" => EventsOfBatch(movement_events, b.id) = <<>>

\* C7 witness: an event is associated with a batch while another batch
\* built from the same event is FAILED
C7_Witness ==
    \E e \in Events, b \in Batches :
        /\ e.anchor_batch_id # NoId
        /\ b.status = "FAILED"
        /\ b.start_sequence <= e.sequence_number
        /\ e.sequence_number <= b.end_sequence

\* C8: when no anchoring run or retry is in progress, every CONFIRMED batch
\* has anchored_at set, the events associated with it are exactly those
\* numbered start_sequence..end_sequence (event_count of them), and the
\* Merkle root over their hashes in sequence order is the stored
\* merkle_root. (The claim asks this of every reachable state.)
C8_ConfirmedBatchContents ==
    InFlight = 0 =>
        \A b \in Batches :
            b.status = "CONFIRMED" =>
                LET events == EventsOfBatch(movement_events, b.id)
                IN  /\ b.anchored_at # NoTx
                    /\ [i \in 1..Len(events) |-> events[i].sequence_number]
                         = [i \in 1..b.event_count |-> b.start_sequence + i - 1]
                    /\ b.end_sequence = b.start_sequence + b.event_count - 1
                    /\ anchor_build_merkle_root(
                          [i \in 1..Len(events) |-> events[i].event_hash]) = b.merkle_root

\* C9: once a retry_batch has returned CONFIRMED for a batch, every event
\* numbered start_sequence..end_sequence of that batch has the batch's id as
\* anchor_batch_id.
C9_RetryAssociatesEvents ==
    \A r \in RetryProcs :
        rb_result[r].result = "CONFIRMED" =>
            LET b == BatchRow(rb_result[r].batch_id)
            IN  \A e \in Events :
                    (b.start_sequence <= e.sequence_number /\ e.sequence_number <= b.end_sequence)
                        => e.anchor_batch_id = b.id

\* the status changes a batch may make
AllowedStatusChange(old, new) ==
    \/ old = new
    \/ <<old, new>> \in { <<"PENDING", "ANCHORING">>, <<"ANCHORING", "CONFIRMED">>,
                          <<"ANCHORING", "FAILED">>, <<"FAILED", "ANCHORING">> }

\* C10: in every step, the status of every batch either stays as it is or
\* changes along PENDING -> ANCHORING, ANCHORING -> CONFIRMED,
\* ANCHORING -> FAILED or FAILED -> ANCHORING; a CONFIRMED batch keeps its
\* status.
C10_StatusTransitions ==
    [][\A i \in 1..Len(anchor_batches) :
          AllowedStatusChange(anchor_batches[i].status, anchor_batches'[i].status)]_vars

\* C11: a retry_batch publishes only for a batch it found FAILED and never
\* while another retry of the same batch is under way: when an earlier
\* retry of a batch has returned CONFIRMED, no later retry of that batch has
\* gone through publication (returned CONFIRMED or FAILED).
C11_NoRepublication ==
    \A r1 \in RetryProcs, r2 \in RetryProcs :
        (/\ r1 < r2
         /\ rb_result[r1].result = "CONFIRMED"
         /\ rb_result[r2].batch_id = rb_result[r1].batch_id)
        => rb_result[r2].result \notin {"CONFIRMED", "FAILED"}

\* C12: runs of create_and_anchor_batch that overlap in time select no
\* common event: whenever two runs are in progress, the ranges
\* [start_sequence, end_sequence] of their batches are disjoint.
C12_OverlappingRunsDisjoint ==
    \A w1 \in AnchorRunners, w2 \in AnchorRunners :
        (w1 # w2 /\ ab_pc[w1] # "idle" /\ ab_pc[w2] # "idle")
        => \/ ab_local[w1].end_sequence < ab_local[w2].start_sequence
           \/ ab_local[w2].end_sequence < ab_local[w1].start_sequence

\* C13: whenever get_event_proof returns a proof for an event, the proof
\* verifies: verify_merkle_proof(event_hash, siblings, root) is true for
\* the root stored on the event's batch, in every reachable state.
C13_ReturnedProofVerifies ==
    \A e \in Events :
        LET proof == get_event_proof_impl(e)
        IN  proof # NoTx =>
                ledger_verify_merkle_proof(proof[1].event_hash, proof[1].siblings, proof[1].root)

----------------------------------------------------------------------------
(* Merkle properties *)

\* C14: for each Merkle implementation (movement-ledger, shared crypto),
\* for every non-empty list of leaf hashes and every valid index, the proof
\* generated for the leaf verifies against the root the same
\* implementation computes for the list.
C14_ProofRoundTrip ==
    /\ mk_out.fn = "verify_merkle_proof" => mk_out.value = TRUE
    /\ mk_out.fn = "crypto::verify_merkle_proof" => mk_out.value = TRUE
    /\ (mk_out.fn = "crypto::generate_merkle_proof" /\ mk_hashes # <<>>)
         => mk_out.value[1].merkle_root = crypto_compute_merkle_root(mk_hashes)[1]

\* C14 witness: a proof verified for the last of five leaves, two of them
\* equal, by one of the implementations
C14_Witness ==
    /\ mk_out.fn \in {"verify_merkle_proof", "crypto::verify_merkle_proof"}
    /\ mk_out.value = TRUE
    /\ Len(mk_hashes) = 5
    /\ mk_index = 4
    /\ mk_hashes[2] = mk_hashes[5]

\* the least power of two that is at least n
IsPowerOfTwo(p) == \E k \in 0..4 : p = 2 ^ k

PaddedCount(n) ==
    CHOOSE p \in 1..(2 * n) :
        /\ IsPowerOfTwo(p)
        /\ p >= n
        /\ \A q \in 1..(2 * n) : (IsPowerOfTwo(q) /\ q >= n) => p <= q

\* the leaves followed by copies of the last leaf, up to a power of two
PaddedLeaves(leaves) ==
    [i \in 1..PaddedCount(Len(leaves)) |->
        IF i <= Len(leaves) THEN leaves[i] ELSE leaves[Len(leaves)]]

\* root of the perfect binary tree over leaves[lo..hi], top-down
RECURSIVE SubtreeRoot(_, _, _)
SubtreeRoot(leaves, lo, hi) ==
    IF lo = hi THEN leaves[lo]
    ELSE LET mid == (lo + hi - 1) \div 2
         IN  Sha256Pair(SubtreeRoot(leaves, lo, mid), SubtreeRoot(leaves, mid + 1, hi))

ExpectedLedgerRoot(leaves) ==
    IF leaves = <<>> THEN <<"0000000000000000000000000000000000000000000000000000000000000000">>
    ELSE IF Len(leaves) = 1 THEN leaves[1]
    ELSE LET padded == PaddedLeaves(leaves)
         IN  SubtreeRoot(padded, 1, Len(padded))

\* C15: movement-ledger build_merkle_root returns 64 zero characters for
\* the empty list, the leaf for a single leaf, and otherwise the root of the
\* tree over the leaves padded with the last leaf to a power of two, with
\* adjacent pairs hashed as H(left || right); [a,b,c] gives
\* H(H(a||b) || H(c||c)).
C15_LedgerRootShape ==
    /\ mk_out.fn = "build_merkle_root" => mk_out.value = ExpectedLedgerRoot(mk_hashes)
    /\ ledger_build_merkle_root(<<<<"h1">>, <<"h2">>, <<"h3">>>>)
         = Sha256Pair(Sha256Pair(<<"h1">>, <<"h2">>), Sha256Pair(<<"h3">>, <<"h3">>))

\* C15 witness: the root returned for five leaves, padded to eight
C15_Witness ==
    /\ mk_out.fn = "build_merkle_root"
    /\ Len(mk_hashes) = 5
    /\ mk_hashes[5] # mk_hashes[4]
    /\ mk_out.value =
         Sha256Pair(
             Sha256Pair(Sha256Pair(mk_hashes[1], mk_hashes[2]),
                        Sha256Pair(mk_hashes[3], mk_hashes[4])),
             Sha256Pair(Sha256Pair(mk_hashes[5], mk_hashes[5]),
                        Sha256Pair(mk_hashes[5], mk_hashes[5])))

Log2(p) == CHOOSE k \in 0..4 : 2 ^ k = p

\* the siblings of leaf i (from 0) in the padded tree, bottom-up: at level
\* k the running node covers 2^(k-1) leaves
ExpectedLedgerProof(leaves, i) ==
    LET padded == PaddedLeaves(leaves)
    IN  [k \in 1..Log2(Len(padded)) |->
            LET width == 2 ^ (k - 1)
                running == i \div width
                sibling == IF running % 2 = 0 THEN running + 1 ELSE running - 1
            IN  [hash |-> SubtreeRoot(padded, sibling * width + 1, (sibling + 1) * width),
                 position |-> IF running % 2 = 0 THEN "right" ELSE "left"]]

FourLeaves == <<<<"h1">>, <<"h2">>, <<"h3">>, <<"h4">>>>

\* C16: movement-ledger generate_merkle_proof, for at least two leaves and
\* a valid index, returns exactly log2(padded leaf count) siblings,
\* bottom-up, each the sibling of the running node in the padded tree,
\* with position "right" when the running index is even and "left" when
\* it is odd.
C16_LedgerProofShape ==
    /\ (mk_out.fn = "generate_merkle_proof" /\ Len(mk_hashes) >= 2)
         => /\ mk_out.value = ExpectedLedgerProof(mk_hashes, mk_index)
            /\ Len(mk_out.value) = Log2(PaddedCount(Len(mk_hashes)))
    /\ ledger_generate_merkle_proof(FourLeaves, 0)
         = << [hash |-> <<"h2">>, position |-> "right"],
              [hash |-> Sha256Pair(<<"h3">>, <<"h4">>), position |-> "right"] >>
    /\ ledger_generate_merkle_proof(FourLeaves, 2)
         = << [hash |-> <<"h4">>, position |-> "right"],
              [hash |-> Sha256Pair(<<"h1">>, <<"h2">>), position |-> "left"] >>

\* C16 witness: the proof returned for the last of five leaves has three
\* siblings, the first the padding copy of the leaf itself
C16_Witness ==
    /\ mk_out.fn = "generate_merkle_proof"
    /\ Len(mk_hashes) = 5
    /\ mk_index = 4
    /\ Len(mk_out.value) = 3
    /\ mk_out.value[1] = [hash |-> mk_hashes[5], position |-> "right"]
    /\ mk_out.value[3].position = "left"

\* C17: for a single-leaf list every Merkle implementation (movement-ledger,
\* chain-anchor, shared crypto) gives a root equal to the leaf, and every
\* proof generator (movement-ledger, shared crypto) gives an empty proof.
C17_SingleLeaf ==
    Len(mk_hashes) = 1 =>
        /\ mk_out.fn = "build_merkle_root" => mk_out.value = mk_hashes[1]
        /\ mk_out.fn = "anchor::build_merkle_root" => mk_out.value = mk_hashes[1]
        /\ mk_out.fn = "crypto::compute_merkle_root" => mk_out.value = <<mk_hashes[1]>>
        /\ mk_out.fn = "generate_merkle_proof" => mk_out.value = <<>>
        /\ mk_out.fn = "crypto::generate_merkle_proof"
             => /\ mk_out.value[1].proof_hashes = <<>>
                /\ mk_out.value[1].merkle_root = mk_hashes[1]

----------------------------------------------------------------------------
(* verify_chain properties *)

\* C18: VerifyChain checks every event of the window, the first one
\* returned included: valid is true only if each event's stored event_hash
\* equals the hash recomputed from its stored fields and each event's
\* previous_hash equals the event_hash of the event before it.
C18_EveryEventChecked ==
    (vc_out.fn = "verify_chain" /\ vc_out.result.valid) =>
        \A i \in 1..Len(vc_out.events) :
            /\ vc_out.events[i].event_hash = RecomputedHash(vc_out.events[i])
            /\ i > 1 => vc_out.events[i].previous_hash = vc_out.events[i - 1].event_hash

ErrorsNaming(kind, sequence_number) ==
    {k \in 1..Len(vc_out.result.errors) :
        /\ vc_out.result.errors[k][1] = kind
        /\ vc_out.result.errors[k][2] = sequence_number}

\* two linked events, the payload of the second changed in place
TamperedSecondPayload ==
    LET rows == AppendRow(AppendRow(<<>>, SampleRequest, 1000), SampleRequest, 1000)
    IN  [rows EXCEPT ![2] = TamperedRow(rows[2], {"payload"})]

\* C19: VerifyChain never stops at the first discrepancy: for every event
\* after the first of the window whose previous_hash differs from the
\* event_hash of the event before it, or whose stored event_hash differs
\* from the recomputed hash, the report has an error naming that event's
\* sequence number, and valid is false whenever there is an error.
C19_CompleteReport ==
    /\ vc_out.fn = "verify_chain" =>
          /\ \A i \in 2..Len(vc_out.events) :
                /\ vc_out.events[i].previous_hash # vc_out.events[i - 1].event_hash
                     => ErrorsNaming("Chain break at sequence",
                                     vc_out.events[i].sequence_number) # {}
                /\ vc_out.events[i].event_hash # RecomputedHash(vc_out.events[i])
                     => ErrorsNaming("Hash mismatch at sequence",
                                     vc_out.events[i].sequence_number) # {}
          /\ vc_out.result.errors # <<>> => ~vc_out.result.valid
    /\ LET result == verify_chain_impl(TamperedSecondPayload,
                                       [from_sequence |-> <<1>>, to_sequence |-> <<2>>])
       IN  /\ ~result.valid
           /\ \E k \in 1..Len(result.errors) :
                 /\ result.errors[k][1] = "Hash mismatch at sequence"
                 /\ result.errors[k][2] = 2

\* C19 witness: a report over three events with a chain break at sequence 2
\* and, after it, a hash mismatch at sequence 3
C19_Witness ==
    /\ vc_out.fn = "verify_chain"
    /\ Len(vc_out.events) = 3
    /\ ErrorsNaming("Chain break at sequence", 2) # {}
    /\ ErrorsNaming("Hash mismatch at sequence", 3) # {}
    /\ ~vc_out.result.valid

----------------------------------------------------------------------------
(* parse_decision properties *)

\* an entry with a non-empty deny array or deny = true
AnyDeny(results) ==
    \E i \in 1..Len(results) :
        \/ results[i].deny[1] = "array" /\ results[i].deny[2] # <<>>
        \/ results[i].deny = Bool(TRUE)

\* an entry with a non-empty require_approval array or require_approval = true
AnyApproval(results) ==
    \E i \in 1..Len(results) :
        \/ results[i].require_approval[1] = "array" /\ results[i].require_approval[2] # <<>>
        \/ results[i].require_approval = Bool(TRUE)

\* C20: for every evaluator result, of any number of entries in any order:
\* parse_decision returns DENY if any entry has a non-empty deny array or
\* deny = true, whatever require_approval is; otherwise REQUIRE_APPROVAL if
\* any entry has a non-empty require_approval array or require_approval =
\* true; otherwise (an empty result included) ALLOW.
C20_DecisionPrecedence ==
    pd_out # NoParse =>
        pd_out.decision = IF AnyDeny(pd_result) THEN "DENY"
                          ELSE IF AnyApproval(pd_result) THEN "REQUIRE_APPROVAL"
                          ELSE "ALLOW"

\* C20 witness: DENY returned for two entries, the first asking for
\* approval only and the second denying
C20_Witness ==
    /\ pd_out.decision = "DENY"
    /\ Len(pd_result) = 2
    /\ pd_result[1].require_approval = Arr(<<"compliance">>)
    /\ pd_result[1].deny = Absent
    /\ pd_result[2].deny = Bool(TRUE)
    /\ pd_result[2].require_approval = Absent

----------------------------------------------------------------------------
(* Policy engine properties *)

\* C21: when rule evaluation fails during CheckAction the request is
\* rejected with POLICY_EVALUATION_FAILED and nothing is written: the step
\* that fails inserts no policy_decisions row and appends no ledger event,
\* and no row carries the id of the rejected request.
C21_FailedEvaluationWritesNothing ==
    [][\A p \in CheckProcs :
          (ca_pc[p] = "evaluate" /\ ca_pc'[p] = "idle") =>
              /\ ca_result'[p].status = "POLICY_EVALUATION_FAILED"
              /\ ca_result'[p].decision_id = NoId
              /\ policy_decisions' = policy_decisions
              /\ movement_events' = movement_events
              /\ policies' = policies]_vars

\* C21 witness: a request rejected after another one was recorded
C21_Witness ==
    \E p \in CheckProcs, q \in CheckProcs :
        /\ ca_result[p].status = "POLICY_EVALUATION_FAILED"
        /\ ca_result[q].status = "Ok"
        /\ Len(policy_decisions) = 1
        /\ policy_decisions[1].id = q

\* the store with the is_active flags set in every other way
OtherActivations(rows) ==
    {[i \in 1..Len(rows) |-> [rows[i] EXCEPT !.is_active = f[i]]] :
        f \in [1..Len(rows) -> BOOLEAN]}

\* the decision of one rule-set alone
DecisionAlone(rego_source, action) ==
    IF rego_source = "deny_transfer" /\ action = "transfer" THEN "DENY"
    ELSE IF rego_source = "approve_withdraw" /\ action = "withdraw" THEN "REQUIRE_APPROVAL"
    ELSE "ALLOW"

\* C22: Simulate(policy_id, input) writes nothing: policies, decision
\* records, ledger events and the live evaluator (loaded rule-sets and
\* current input) are unchanged, and its result depends only on the named
\* policy's source and the input, not on which policies are active.
C22_SimulateIsolated ==
    [][sim_out' # sim_out =>
          /\ policies' = policies
          /\ policy_decisions' = policy_decisions
          /\ movement_events' = movement_events
          /\ engine' = engine
          /\ LET req == [policy_id |-> sim_out'.policy_id, action |-> sim_out'.action]
             IN  sim_out'.status = "Ok" =>
                    /\ \A rows \in OtherActivations(policies) :
                          simulate_policy_impl(rows, req).result = sim_out'.result
                    /\ sim_out'.result.decision =
                          DecisionAlone(PolicyById(policies, req.policy_id)[1].rego_source,
                                        req.action)]_vars

\* C22 witness: policy 1 simulated on a withdrawal is ALLOW while the live
\* engine, with policy 2 loaded, asks for approval
C22_Witness ==
    /\ sim_out.status = "Ok"
    /\ sim_out.policy_id = 1
    /\ sim_out.action = "withdraw"
    /\ sim_out.result.decision = "ALLOW"
    /\ policies[2].is_active
    /\ engine.loaded_policies = <<2>>
    /\ engine.input = NoInput

ManageIdle ==
    /\ \A a \in ActivateProcs : ap_pc[a] = "idle"
    /\ \A c \in CreateProcs : cp_pc[c] = "idle"

NoStatementFailed ==
    /\ \A a \in ActivateProcs : ap_result[a].status # "DATABASE_ERROR"
    /\ \A c \in CreateProcs : cp_result[c].status # "DATABASE_ERROR"

LoadedIds == {engine.loaded_policies[i] : i \in 1..Len(engine.loaded_policies)}

ActiveIds == {policies[i].id : i \in {j \in 1..Len(policies) : policies[j].is_active}}

\* C23: whenever no create, activate or deactivate request is in flight,
\* the rule-sets loaded in the live evaluator are exactly the policies with
\* is_active = true in the store, for every interleaving of concurrent
\* create, activate and deactivate requests (here: of those in which no
\* database statement failed).
C23_EngineMatchesStore ==
    (ManageIdle /\ NoStatementFailed) => LoadedIds = ActiveIds

\* C24: an evaluation never runs against a partially reloaded evaluator:
\* no Evaluate step is taken while a reload is between its clear and the
\* end of its load loop, so each Evaluate sees the rule-sets as they were
\* before that reload or as they are after it.
C24_NoEvaluationInsideReload ==
    [][\A p \in CheckProcs :
          (ca_pc[p] = "evaluate" /\ ca_pc'[p] # "evaluate") =>
              \A a \in ActivateProcs : ap_pc[a] # "loading"]_vars

\* C24 witness: an evaluation is due while a reload has cleared the engine
\* and not yet loaded the policies it read
C24_Witness ==
    \E p \in CheckProcs, a \in ActivateProcs :
        /\ ca_pc[p] = "evaluate"
        /\ ap_pc[a] = "loading"
        /\ engine.loaded_policies = <<>>
        /\ ap_local[a].rows # <<>>

\* C25: a create_policy request whose source the evaluator rejects is
\* answered with the invalid-source code (InvalidRego, "INVALID_REGO") and
\* changes neither the store nor the live engine.
C25_InvalidSourceRejected ==
    [][\A c \in CreateProcs :
          (cp_pc[c] = "idle" /\ cp_pc'[c] = "idle" /\ cp_result'[c] # cp_result[c]
             /\ cp_result'[c].status # "DATABASE_ERROR") =>
              /\ cp_result'[c].status = "INVALID_REGO"
              /\ policies' = policies
              /\ engine' = engine]_vars

----------------------------------------------------------------------------
(* Ledger append: cancellation, failure, racing calls *)

\* the persisted row with the highest sequence_number
LastCommitted ==
    CHOOSE e \in Events : \A o \in Events : o.sequence_number <= e.sequence_number

\* C26: a create_event call that starts while no other call is in flight,
\* on a ledger whose rows are linked, takes the last committed event as its
\* predecessor (its hash as previous_hash, its sequence_number + 1), also
\* when the call that committed that event was cancelled before it updated
\* the tail cache.
C26_NextAppendLinksToCommitted ==
    [][\A p \in LedgerProcs :
          (/\ ce_pc[p] = "idle" /\ ce_pc'[p] = "hashed"
           /\ \A q \in LedgerProcs \ {p} : ce_pc[q] = "idle"
           /\ movement_events # <<>>
           /\ C1_ChainLinkage) =>
              /\ ce_local'[p].previous_hash = LastCommitted.event_hash
              /\ ce_local'[p].next_sequence = LastCommitted.sequence_number + 1]_vars

\* C27: a create_event call whose INSERT fails returns the error and leaves
\* the ledger and the cached tail as they were; the tail cache is only ever
\* set to the sequence_number and event_hash of an event that is already
\* committed.
C27_FailedInsertChangesNothing ==
    [][/\ \A p \in LedgerProcs :
            (ce_pc[p] = "hashed" /\ ce_pc'[p] = "idle" /\ ce_result'[p] = "Err") =>
                /\ movement_events' = movement_events
                /\ last_event' = last_event
       /\ last_event' # last_event =>
            \E e \in Events : last_event' = CachedTail(e)]_vars

\* C27 witness: a call failed at its INSERT after an event had been
\* committed and cached; the cache still names that event
C27_Witness ==
    /\ \E p \in LedgerProcs : ce_result[p] = "Err"
    /\ Len(movement_events) = 1
    /\ movement_events[1].id = 1
    /\ last_event = CachedTail(movement_events[1])
    /\ uuid_ctr = 3

\* C28: of the create_event calls that raced on one tail at most one
\* persists an event for that position: when every call of a round of
\* NumAppenders calls has returned Ok, no two persisted events have the
\* same previous_hash (a call that lost the race would have returned an
\* error and persisted nothing).
C28_RaceLoserPersistsNothing ==
    (/\ uuid_ctr = NumAppenders + 1
     /\ AllIdle
     /\ \A p \in LedgerProcs : ce_result[p] = "Ok")
    => \A i, j \in 1..Len(movement_events) :
          movement_events[i].previous_hash = movement_events[j].previous_hash => i = j

----------------------------------------------------------------------------
(* Anchor: persisted events and recorded transactions *)

\* C29: no step of the ledger or of the anchor deletes a persisted event or
\* changes one of its fields, except anchor_batch_id, which only goes from
\* null to a batch id and is never cleared or replaced afterwards.
C29_EventsImmutable ==
    [][/\ Len(movement_events') >= Len(movement_events)
       /\ \A i \in 1..Len(movement_events) :
            LET e == movement_events[i]
                f == movement_events'[i]
            IN  /\ [f EXCEPT !.anchor_batch_id = e.anchor_batch_id] = e
                /\ e.anchor_batch_id # NoId => f.anchor_batch_id = e.anchor_batch_id]_vars

\* C30: the UPDATE that ends a retry never overwrites a transaction id or a
\* block / slot the batch already records; it only fills fields that are
\* null.
C30_RetryKeepsRecordedTransactions ==
    [][\A r \in RetryProcs :
          (rb_pc[r] = "anchoring" /\ rb_pc'[r] = "idle") =>
              \A i \in 1..Len(anchor_batches) :
                  LET b == anchor_batches[i]
                      c == anchor_batches'[i]
                  IN  /\ b.ethereum_tx_hash # NoTx => c.ethereum_tx_hash = b.ethereum_tx_hash
                      /\ b.ethereum_block # NoTx => c.ethereum_block = b.ethereum_block
                      /\ b.solana_tx_signature # NoTx =>
                             c.solana_tx_signature = b.solana_tx_signature
                      /\ b.solana_slot # NoTx => c.solana_slot = b.solana_slot]_vars

----------------------------------------------------------------------------
(* Publication order *)

\* C35: in every anchoring attempt (batch creation or retry) the Ethereum
\* call comes before the Solana call, and no Solana call is made when the
\* Ethereum call failed.
C35_EthereumBeforeSolana ==
    LET calls == pub_out.calls
    IN  /\ \A i, j \in 1..Len(calls) :
             (calls[i].chain = "ethereum" /\ calls[j].chain = "solana") => i < j
        /\ (\E i \in 1..Len(calls) : calls[i].chain = "ethereum" /\ ~calls[i].ok) =>
             \A j \in 1..Len(calls) : calls[j].chain # "solana"

\* C35 witness: a retry whose Ethereum call failed, with Solana enabled and
\* its client present: the Solana call was not made
C35_Witness ==
    /\ pub_out.attempt = "retry"
    /\ pub_out.calls = << [chain |-> "ethereum", ok |-> FALSE] >>
    /\ anchor_config.solana_enabled /\ anchor_config.solana_client

----------------------------------------------------------------------------
(* list_events properties *)

\* C31: every event list_events returns matches every filter of the query
\* (actor, event type, time window, anchored-only), and the events are in
\* descending sequence_number order.
C31_ListMatchesEveryFilter ==
    LET q == le_out.query
        events == le_out.events
    IN  /\ \A i \in 1..Len(events) :
             /\ q.actor_id # NoTx => events[i].actor_id = q.actor_id[1]
             /\ q.event_type # NoTx => events[i].event_type = q.event_type[1]
             /\ q.from_date # NoTx => events[i].created_at >= q.from_date[1]
             /\ q.to_date # NoTx => events[i].created_at <= q.to_date[1]
             /\ (q.anchored_only # NoTx /\ q.anchored_only[1]) =>
                    events[i].anchor_batch_id # NoId
        /\ \A i, j \in 1..Len(events) :
             i < j => events[i].sequence_number > events[j].sequence_number

----------------------------------------------------------------------------
(* Solana program properties *)

\* C32: a store_batch that succeeds is signed by the program authority or
\* by an address that has an AuthorizedAnchor account at that moment
\* (authorized and not since revoked).
C32_StoreBatchAuthorized ==
    [][Len(sol_batches') > Len(sol_batches) =>
          LET anchor == sol_batches'[Len(sol_batches')].anchor
          IN  anchor = sol_state.authority \/ anchor \in sol_authorized]_vars

\* a store_batch instruction with all its accounts is processed in this step
StoreBatchStep ==
    /\ sol_out' # sol_out
    /\ sol_out'.ix = "store_batch"
    /\ sol_out'.sent = <<>>

\* C33 as stated: while the state is paused every store_batch fails with
\* the Paused error and changes neither the batches nor the counters.
C33_PausedStoreBatchFailsWithPaused ==
    [][(StoreBatchStep /\ sol_state.paused) =>
          /\ sol_out'.status = "Paused"
          /\ sol_batches' = sol_batches
          /\ sol_state' = sol_state]_vars

\* C33: while the state is paused every store_batch fails and changes
\* neither the batches nor total_batches / total_events, and it fails with
\* Paused unless its accounts are rejected first; a store_batch on a state
\* that is not paused fails only through its accounts; the paused flag
\* changes only in a pause or unpause signed by the authority.
C33_PauseBlocksStoreBatch ==
    [][/\ (StoreBatchStep /\ sol_state.paused) =>
            /\ sol_out'.status # "Ok"
            /\ sol_batches' = sol_batches
            /\ sol_state' = sol_state
            /\ sol_out'.status = "Paused" \/ sol_out'.status \in
                   {"AccountNotInitialized", "AccountAlreadyInUse", "ConstraintSeeds"}
       /\ (StoreBatchStep /\ ~sol_state.paused /\ sol_out'.status # "Ok") =>
            sol_out'.status \in {"AccountNotInitialized", "AccountAlreadyInUse",
                                 "ConstraintSeeds"}
       /\ sol_state'.paused # sol_state.paused =>
            /\ sol_out'.ix \in {"pause", "unpause"}
            /\ sol_out'.status = "Ok"
            /\ sol_out'.signer = sol_state.authority]_vars

\* C33 witness: a batch was stored, the program was paused, and a
\* store_batch of a new batch id signed by the authority failed with Paused
C33_Witness ==
    /\ sol_state.paused
    /\ Len(sol_batches) = 1
    /\ sol_state.total_batches = 1
    /\ sol_out.ix = "store_batch" /\ sol_out.status = "Paused"
    /\ sol_out.signer = sol_state.authority
    /\ sol_out.args[1] # sol_batches[1].batch_id

\* C39: when the adapter publishes (batch_id, merkle_root, event_count) the
\* arguments store_batch reads from the instruction data are those values,
\* the instruction succeeds and the Batch account stored holds them.
C39_AdapterBatchStoredAsSent ==
    sol_out.sent # <<>> =>
        /\ sol_out.args = sol_out.sent
        /\ sol_out.status = "Ok"
        /\ \E i \in 1..Len(sol_batches) :
             <<sol_batches[i].batch_id, sol_batches[i].merkle_root,
               sol_batches[i].event_count>> = sol_out.sent

----------------------------------------------------------------------------
(* Batch contents *)

\* the persisted events without a batch
Unanchored == {e \in Events : e.anchor_batch_id = NoId}

\* the persisted event with this id
EventById(id) == CHOOSE e \in Events : e.id = id

\* C34: a run of create_and_anchor_batch selects the unanchored events with
\* the lowest sequence numbers, at most batch_size of them, in ascending
\* order; start_sequence and end_sequence are the smallest and largest
\* selected number, event_count is the number selected, merkle_root is the
\* Merkle root of their hashes in that order; the batch row inserted carries
\* these values, and no row is inserted by a run that selected no event.
C34_BatchSelection ==
    [][\A w \in AnchorRunners :
          /\ (ab_pc[w] = "idle" /\ ab_pc'[w] = "selected") =>
                LET l == ab_local'[w]
                    n == Len(l.event_ids)
                    picked == [i \in 1..n |-> EventById(l.event_ids[i])]
                    numbers == {picked[i].sequence_number : i \in 1..n}
                IN  /\ n >= 1 /\ n <= anchor_config.batch_size
                    /\ n = anchor_config.batch_size \/ n = Cardinality(Unanchored)
                    /\ \A i \in 1..n : picked[i] \in Unanchored
                    /\ \A i, j \in 1..n :
                          i < j => picked[i].sequence_number < picked[j].sequence_number
                    /\ \A e \in Unanchored :
                          e.sequence_number \notin numbers =>
                              \A k \in numbers : k < e.sequence_number
                    /\ l.start_sequence \in numbers /\ l.end_sequence \in numbers
                    /\ \A k \in numbers : l.start_sequence <= k /\ k <= l.end_sequence
                    /\ l.event_count = n
                    /\ l.merkle_root =
                          ExpectedLedgerRoot([i \in 1..n |-> picked[i].event_hash])
          /\ (ab_pc[w] = "selected" /\ ab_pc'[w] = "pending") =>
                LET l == ab_local[w]
                    row == anchor_batches'[Len(anchor_batches')]
                IN  /\ Len(anchor_batches') = Len(anchor_batches) + 1
                    /\ row.id = l.batch_id /\ row.status = "PENDING"
                    /\ row.merkle_root = l.merkle_root
                    /\ row.start_sequence = l.start_sequence
                    /\ row.end_sequence = l.end_sequence
                    /\ row.event_count = l.event_count /\ row.event_count >= 1]_vars

\* C34 witness: two unanchored events and batch_size 1: the run selected
\* event 1 only
C34_Witness ==
    \E w \in AnchorRunners :
        /\ ab_pc[w] = "selected"
        /\ anchor_config.batch_size = 1
        /\ Cardinality(Unanchored) = 2
        /\ ab_local[w].event_count = 1
        /\ ab_local[w].start_sequence = 1 /\ ab_local[w].end_sequence = 1

\* C36: the [start_sequence, end_sequence] ranges of two different
\* CONFIRMED batches have no sequence number in common.
C36_ConfirmedRangesDisjoint ==
    \A i, j \in 1..Len(anchor_batches) :
        (/\ i # j
         /\ anchor_batches[i].status = "CONFIRMED"
         /\ anchor_batches[j].status = "CONFIRMED") =>
            \/ anchor_batches[i].end_sequence < anchor_batches[j].start_sequence
            \/ anchor_batches[j].end_sequence < anchor_batches[i].start_sequence

\* C37: a batch row does not stay PENDING or ANCHORING once the run or the
\* retry that works on it has ended: when no run and no retry is in
\* progress every batch is CONFIRMED or FAILED.
C37_NoBatchLeftInProgress ==
    (/\ \A w \in AnchorRunners : ab_pc[w] = "idle"
     /\ \A r \in RetryProcs : rb_pc[r] = "idle")
    => \A i \in 1..Len(anchor_batches) :
          anchor_batches[i].status \in {"CONFIRMED", "FAILED"}

\* C38: for every list of leaf hashes, chain-anchor's build_merkle_root and
\* movement-ledger's build_merkle_root return the same root: whichever of the
\* two is called, the value it returns is the value the other one returns
\* for the same list.
C38_SameMerkleRoot ==
    [][/\ CallAnchorBuildRoot => mk_out'.value = ledger_build_merkle_root(mk_hashes)
       /\ CallLedgerBuildRoot => mk_out'.value = anchor_build_merkle_root(mk_hashes)]_vars

\* chain-anchor's function has returned the root of five leaves, three of
\* them distinct, which both functions pad to eight
C38_Witness ==
    /\ mk_out.fn = "anchor::build_merkle_root"
    /\ Len(mk_hashes) = 5
    /\ Cardinality({mk_hashes[i] : i \in 1..5}) >= 3
    /\ mk_out.value = ReduceLevels(LedgerPad(mk_hashes))
    /\ Len(LedgerPad(mk_hashes)) = 8

\* C40: under concurrent CheckAction requests each request's decision is
\* computed from its own input and the loaded rule-sets only: the step that
\* evaluates request p gives p the result of the query over the loaded
\* modules and p's own input, whatever input another request left in the
\* shared engine, and leaves the loaded modules and every other request's
\* input and result as they were.
C40_DecisionFromOwnInput ==
    [][\A p \in CheckProcs :
          (ca_pc[p] = "evaluate" /\ ca_pc'[p] = "select_policy") =>
              /\ ca_local'[p].eval_result =
                    parse_decision(EvalQuery(engine.modules, ca_local[p].input))
              /\ ca_local'[p].input = ca_local[p].input
              /\ engine'.modules = engine.modules
              /\ \A q \in CheckProcs \ {p} : ca_local'[q] = ca_local[q]]_vars

\* C40 witness: two requests in progress at once, a transfer evaluated to DENY
\* and then a withdrawal evaluated to REQUIRE_APPROVAL by the same engine
C40_Witness ==
    \E p \in CheckProcs, q \in CheckProcs :
        /\ p # q
        /\ ca_pc[p] = "select_policy"
        /\ ca_pc[q] = "select_policy"
        /\ ca_local[p].input.action = "transfer"
        /\ ca_local[p].eval_result.decision = "DENY"
        /\ ca_local[q].input.action = "withdraw"
        /\ ca_local[q].eval_result.decision = "REQUIRE_APPROVAL"
        /\ engine.input = ca_local[q].input

====
